---- MODULE Spec2Model ----
(***************************************************************************)
(* A model of the order-workflow state engine of the repository:           *)
(*   - OrderStateMachine                    (src/advanced_patterns.py)     *)
(*   - InMemoryRepository, the commands and CommandManager                 *)
(*                                          (src/advanced_patterns.py)     *)
(*   - FileRepository                       (src/advanced_patterns.py)     *)
(*   - the facade tools over the three      (src/advanced_patterns.py)     *)
(*   - EventBus                             (src/event_driven_state.py)    *)
(*   - OrderStateManager and its tools      (src/global_state.py)          *)
(*   - ReactiveOrderState and its EventBus  (src/event_driven_state.py)    *)
(*   - the orchestrator tools               (src/orchestrator_state.py)    *)
(* Each component is driven through its public methods; one action per     *)
(* method, its arguments drawn from small sets.                            *)
(***************************************************************************)
EXTENDS Integers, Sequences, FiniteSets, TLC

VARIABLES
    sm_orders,      \* OrderStateMachine.orders: order_id -> record
    sm_last,        \* the last OrderStateMachine call: arguments and outcome
    repo_data,      \* InMemoryRepository.data: key -> record
    history,        \* CommandManager.history: the command objects, in order
    current_index,  \* CommandManager.current_index
    next_cmd,       \* identity given to the next command object constructed
    discarded,      \* identities of the commands execute_command cut off
    phase,          \* shape of the CommandManager call sequence so far
    cm_last,        \* the last CommandManager call: outcome, command calls, redo record
    listeners,      \* EventBus.listeners: event type -> handlers, in order
    event_history,  \* EventBus.event_history
    subscribed,     \* every subscribe call so far: <<event type, handler>>
    bus_last,       \* the last EventBus call: event and handler invocations
    fs_files,       \* FileRepository: the files of base_path, name -> content
    store_last,     \* the last repository call, made on both backends
    mgr_orders,            \* OrderStateManager.orders: order_id -> order
    mgr_current_order_id,  \* OrderStateManager.current_order_id
    mgr_inventory,         \* OrderStateManager.inventory: item -> quantity
    mgr_state_history,     \* OrderStateManager.state_history: its length
    mgr_last,              \* the last global-state tool call and its outcome
    tool_last,      \* the last facade tool call: arguments and result
    event_bus,      \* the EventBus of reactive_state: listeners, event_history
                    \* and, per event, the order dict its data holds
    reactive_state, \* ReactiveOrderState: orders, current_order_id, inventory,
                    \* notifications
    reactive_last,  \* the last ReactiveOrderState call: result and call trace
    agent_state,    \* the orchestrator's agent.state: key -> value
    orch_last       \* the last orchestrator tool call and its result

smVars  == <<sm_orders, sm_last>>
cmdVars == <<repo_data, history, current_index, next_cmd, discarded, phase, cm_last>>
busVars == <<listeners, event_history, subscribed, bus_last>>
storeVars == <<fs_files, store_last>>
mgrVars == <<mgr_orders, mgr_current_order_id, mgr_inventory, mgr_state_history,
             mgr_last>>
toolVars == <<tool_last>>
rxVars  == <<event_bus, reactive_state, reactive_last>>
orchVars == <<agent_state, orch_last>>
vars    == <<sm_orders, sm_last, repo_data, history, current_index, next_cmd,
             discarded, phase, cm_last, listeners, event_history, subscribed,
             bus_last, fs_files, store_last, mgr_orders, mgr_current_order_id,
             mgr_inventory, mgr_state_history, mgr_last, tool_last, event_bus,
             reactive_state, reactive_last, agent_state, orch_last>>

(***************************************************************************)
(* Bounds of the model.                                                    *)
(***************************************************************************)
MaxTotal == 1

OrderIds    == {"O1", "O2"}
CustomerIds == {"C1", "C2"}
ItemLists   == {<<"laptop", "mouse">>}

(***************************************************************************)
(* Python dictionaries are functions; dict.update and dict.copy.           *)
(***************************************************************************)
EmptyDict == [k \in {} |-> 0]

DictUpdate(d, u) ==
    [k \in (DOMAIN d) \cup (DOMAIN u) |-> IF k \in DOMAIN u THEN u[k] ELSE d[k]]

DictSet(d, key, value) ==
    [k \in (DOMAIN d) \cup {key} |-> IF k = key THEN value ELSE d[k]]

DictDel(d, key) == [k \in (DOMAIN d) \ {key} |-> d[k]]

(***************************************************************************)
(* PATTERN 4: OrderStateMachine                                            *)
(***************************************************************************)
OrderState ==
    {"created", "inventory_checked", "payment_processed", "shipped",
     "completed", "cancelled"}

VALID_TRANSITIONS_Reopen(s) ==
    CASE s = "created"           -> {"inventory_checked", "cancelled"}
      [] s = "inventory_checked" -> {"payment_processed", "cancelled"}
      [] s = "payment_processed" -> {"shipped", "cancelled"}
      [] s = "shipped"           -> {"completed"}
      [] s = "completed"         -> {}
      [] s = "cancelled"         -> {"created"}

VALID_TRANSITIONS(s) ==
    CASE s = "created"           -> {"inventory_checked", "cancelled"}
      [] s = "inventory_checked" -> {"payment_processed", "cancelled"}
      [] s = "payment_processed" -> {"shipped", "cancelled"}
      [] s = "shipped"           -> {"completed"}
      [] s = "completed"         -> {}
      [] s = "cancelled"         -> {}

\* The extra-field mappings a caller may pass to transition_to: nothing (None
\* and {} both merge nothing), a total, or a "state" field.
TransitionData ==
    {EmptyDict}
      \cup {[total |-> t] : t \in 1..MaxTotal}
      \cup {[state |-> s] : s \in OrderState}

NoCall ==
    [op |-> "none", order_id |-> "", new_state |-> "", data |-> EmptyDict,
     ret |-> FALSE, raised |-> ""]

NewOrder(order_id, customer_id, items) ==
    [order_id |-> order_id, customer_id |-> customer_id, items |-> items,
     state |-> "created", total |-> 0]

create_order_Overwrite(order_id, customer_id, items) ==
    /\ sm_orders' = DictSet(sm_orders, order_id, NewOrder(order_id, customer_id, items))
    /\ sm_last' = [NoCall EXCEPT !.op = "create_order", !.order_id = order_id,
                                 !.ret = order_id \notin DOMAIN sm_orders]

create_order(order_id, customer_id, items) ==
    IF order_id \in DOMAIN sm_orders
    THEN /\ sm_orders' = sm_orders
         /\ sm_last' = [NoCall EXCEPT !.op = "create_order", !.order_id = order_id,
                                      !.ret = FALSE]
    ELSE /\ sm_orders' =
               DictSet(sm_orders, order_id, NewOrder(order_id, customer_id, items))
         /\ sm_last' = [NoCall EXCEPT !.op = "create_order", !.order_id = order_id,
                                      !.ret = TRUE]

\* How transition_to ends: "False" (unknown order), "ValueError" (edge not in
\* the table) or "True".
TransitionOutcome(orders, order_id, new_state) ==
    IF order_id \notin DOMAIN orders THEN "False"
    ELSE IF new_state \notin VALID_TRANSITIONS(orders[order_id].state) THEN "ValueError"
    ELSE "True"

\* The record after a successful transition_to: the state is assigned first,
\* then data is merged over the record.
TransitionRecord(rec, new_state, data) ==
    DictUpdate([rec EXCEPT !.state = new_state], data)

transition_to(order_id, new_state, data) ==
    LET outcome == TransitionOutcome(sm_orders, order_id, new_state)
        call    == [NoCall EXCEPT !.op = "transition_to", !.order_id = order_id,
                                  !.new_state = new_state, !.data = data]
    IN  CASE outcome = "False" ->
               /\ sm_orders' = sm_orders
               /\ sm_last' = [call EXCEPT !.ret = FALSE]
          [] outcome = "ValueError" ->
               /\ sm_orders' = sm_orders
               /\ sm_last' = [call EXCEPT !.raised = "ValueError"]
          [] outcome = "True" ->
               /\ sm_orders' = [sm_orders EXCEPT ![order_id] =
                                   TransitionRecord(@, new_state, data)]
               /\ sm_last' = [call EXCEPT !.ret = TRUE]

CanTransitionTo_UnknownTrue(orders, order_id, new_state) ==
    IF order_id \notin DOMAIN orders THEN TRUE
    ELSE new_state \in VALID_TRANSITIONS(orders[order_id].state)

CanTransitionTo(orders, order_id, new_state) ==
    IF order_id \notin DOMAIN orders THEN FALSE
    ELSE new_state \in VALID_TRANSITIONS(orders[order_id].state)

can_transition_to(order_id, new_state) ==
    /\ sm_orders' = sm_orders
    /\ sm_last' = [NoCall EXCEPT !.op = "can_transition_to", !.order_id = order_id,
                                 !.new_state = new_state,
                                 !.ret = CanTransitionTo(sm_orders, order_id, new_state)]

\* get_order returns the record, or None (ret = FALSE) for an unknown id.
get_order(order_id) ==
    /\ sm_orders' = sm_orders
    /\ sm_last' = [NoCall EXCEPT !.op = "get_order", !.order_id = order_id,
                                 !.ret = order_id \in DOMAIN sm_orders]

(***************************************************************************)
(* PATTERN 5: InMemoryRepository.  An Optional[Dict] is <<>> (None) or     *)
(* <<record>>.                                                             *)
(***************************************************************************)
None == <<>>

Some(rec) == <<rec>>

\* Python truthiness of an Optional[Dict]: None and {} are both false.
Truthy(opt) == opt # None /\ DOMAIN opt[1] # {}

RepoSave(data, key, rec) == DictSet(data, key, rec)

RepoLoad(data, key) == IF key \in DOMAIN data THEN Some(data[key]) ELSE None

RepoDelete(data, key) ==
    IF key \in DOMAIN data
    THEN [data |-> DictDel(data, key), ret |-> TRUE]
    ELSE [data |-> data, ret |-> FALSE]

(***************************************************************************)
(* PATTERN 6: commands and CommandManager                                  *)
(***************************************************************************)
MaxCmds == 3

\* f"order_{order_id}"
OrderKey(order_id) == "order_" \o order_id

\* The order_data a CreateOrderCommand is constructed with.
OrderData ==
    {[state |-> "created", total |-> t] : t \in 0..MaxTotal}

\* The updates an UpdateOrderCommand is constructed with.
Updates ==
    {EmptyDict, [state |-> "inventory_checked"], [total |-> MaxTotal]}

CreateOrderCommand(id, order_id, order_data) ==
    [id |-> id, kind |-> "create", order_id |-> order_id, payload |-> order_data,
     previous_data |-> None]

UpdateOrderCommand(id, order_id, updates) ==
    [id |-> id, kind |-> "update", order_id |-> order_id, payload |-> updates,
     previous_data |-> None]

\* The commands a caller may construct, each a new object with identity id.
NewCommands(id) ==
    {CreateOrderCommand(id, o, d) : o \in OrderIds, d \in OrderData}
      \cup {UpdateOrderCommand(id, o, u) : o \in OrderIds, u \in Updates}

\* An UpdateOrderCommand.execute that stores the updates as a new record when
\* the key holds none.
CmdExecute_Upsert(cmd, data) ==
    IF cmd.kind = "create"
    THEN [data |-> RepoSave(data, OrderKey(cmd.order_id), cmd.payload),
          ret |-> TRUE, cmd |-> cmd]
    ELSE LET prev == RepoLoad(data, OrderKey(cmd.order_id))
             captured == [cmd EXCEPT !.previous_data = prev]
         IN  [data |-> RepoSave(data, OrderKey(cmd.order_id),
                                IF Truthy(prev)
                                THEN DictUpdate(prev[1], cmd.payload)
                                ELSE cmd.payload),
              ret |-> TRUE, cmd |-> captured]

\* command.execute() on the store: the store afterwards, the value returned and
\* the command object afterwards (UpdateOrderCommand captures previous_data).
CmdExecute(cmd, data) ==
    IF cmd.kind = "create"
    THEN [data |-> RepoSave(data, OrderKey(cmd.order_id), cmd.payload),
          ret |-> TRUE, cmd |-> cmd]
    ELSE LET prev == RepoLoad(data, OrderKey(cmd.order_id))
             captured == [cmd EXCEPT !.previous_data = prev]
         IN  IF Truthy(prev)
             THEN [data |-> RepoSave(data, OrderKey(cmd.order_id),
                                     DictUpdate(prev[1], cmd.payload)),
                   ret |-> TRUE, cmd |-> captured]
             ELSE [data |-> data, ret |-> FALSE, cmd |-> captured]

\* command.undo() on the store: the store afterwards and the value returned.
CmdUndo(cmd, data) ==
    IF cmd.kind = "create"
    THEN RepoDelete(data, OrderKey(cmd.order_id))
    ELSE IF Truthy(cmd.previous_data)
         THEN [data |-> RepoSave(data, OrderKey(cmd.order_id), cmd.previous_data[1]),
               ret |-> TRUE]
         ELSE [data |-> data, ret |-> FALSE]

\* self.history[:self.current_index + 1]
Truncate_KeepAll(h, index) == h

Truncate(h, index) == SubSeq(h, 1, index + 1)

Ids(h) == {h[i].id : i \in 1..Len(h)}

NextPhase(op) ==
    CASE op = "execute_command" -> IF phase = "exec" THEN "exec" ELSE "mixed"
      [] op = "undo" -> IF phase \in {"exec", "undo"} THEN "undo" ELSE "mixed"
      [] op = "redo" -> IF phase \in {"undo", "redo"} THEN "redo" ELSE "mixed"

\* What a redo leaves for the call that follows it: the store as it was when
\* the redo began and the command as it was then, previous_data included.
Redone(command) == Some([before |-> repo_data, command |-> command])

\* In an undo: the record of the redo, if the call before this one was a
\* redo that ran a command.
RedoneBefore ==
    IF cm_last.op = "redo" /\ cm_last.ret THEN cm_last.redone ELSE None

execute_command(command) ==
    LET r    == CmdExecute(command, repo_data)
        kept == Truncate(history, current_index)
    IN  /\ next_cmd <= MaxCmds
        /\ repo_data' = r.data
        /\ history' = Append(kept, r.cmd)
        /\ current_index' = current_index + 1
        /\ next_cmd' = next_cmd + 1
        /\ discarded' = discarded \cup (Ids(history) \ Ids(kept))
        /\ phase' = NextPhase("execute_command")
        /\ cm_last' = [op |-> "execute_command", ret |-> r.ret,
                       calls |-> << <<command.id, "execute", r.ret>> >>,
                       redone |-> None]

\* An undo that moves the cursor back even when no command is at the cursor.
undo_Unguarded ==
    IF current_index >= 0
    THEN LET r == CmdUndo(history[current_index + 1], repo_data)
         IN  /\ repo_data' = r.data
             /\ current_index' = current_index - 1
             /\ phase' = NextPhase("undo")
             /\ cm_last' = [op |-> "undo", ret |-> TRUE,
                            calls |-> << <<history[current_index + 1].id, "undo", r.ret>> >>,
                            redone |-> RedoneBefore]
             /\ UNCHANGED <<history, next_cmd, discarded>>
    ELSE /\ current_index' = current_index - 1
         /\ phase' = NextPhase("undo")
         /\ cm_last' = [op |-> "undo", ret |-> FALSE, calls |-> <<>>,
                       redone |-> None]
         /\ UNCHANGED <<repo_data, history, next_cmd, discarded>>

undo_NoStep ==
    IF current_index >= 0
    THEN LET r == CmdUndo(history[current_index + 1], repo_data)
         IN  /\ repo_data' = r.data
             /\ current_index' = current_index
             /\ phase' = NextPhase("undo")
             /\ cm_last' = [op |-> "undo", ret |-> TRUE,
                            calls |-> << <<history[current_index + 1].id, "undo", r.ret>> >>,
                            redone |-> RedoneBefore]
             /\ UNCHANGED <<history, next_cmd, discarded>>
    ELSE /\ phase' = NextPhase("undo")
         /\ cm_last' = [op |-> "undo", ret |-> FALSE, calls |-> <<>>,
                       redone |-> None]
         /\ UNCHANGED <<repo_data, history, current_index, next_cmd, discarded>>

undo ==
    IF current_index >= 0
    THEN LET r == CmdUndo(history[current_index + 1], repo_data)
         IN  /\ repo_data' = r.data
             /\ current_index' = current_index - 1
             /\ phase' = NextPhase("undo")
             /\ cm_last' = [op |-> "undo", ret |-> TRUE,
                            calls |-> << <<history[current_index + 1].id, "undo", r.ret>> >>,
                            redone |-> RedoneBefore]
             /\ UNCHANGED <<history, next_cmd, discarded>>
    ELSE /\ phase' = NextPhase("undo")
         /\ cm_last' = [op |-> "undo", ret |-> FALSE, calls |-> <<>>,
                       redone |-> None]
         /\ UNCHANGED <<repo_data, history, current_index, next_cmd, discarded>>

\* A redo whose command keeps the previous_data it captured before.
redo_KeepCapture ==
    IF current_index < Len(history) - 1
    THEN LET r == CmdExecute(history[current_index + 2], repo_data)
         IN  /\ repo_data' = r.data
             /\ current_index' = current_index + 1
             /\ phase' = NextPhase("redo")
             /\ cm_last' = [op |-> "redo", ret |-> TRUE,
                            calls |-> << <<history[current_index + 2].id, "execute", r.ret>> >>,
                            redone |-> Redone(history[current_index + 2])]
             /\ UNCHANGED <<history, next_cmd, discarded>>
    ELSE /\ phase' = NextPhase("redo")
         /\ cm_last' = [op |-> "redo", ret |-> FALSE, calls |-> <<>>,
                       redone |-> None]
         /\ UNCHANGED <<repo_data, history, current_index, next_cmd, discarded>>

redo_Reappend ==
    IF current_index < Len(history) - 1
    THEN LET r == CmdExecute(history[current_index + 2], repo_data)
         IN  /\ repo_data' = r.data
             /\ history' = Append(SubSeq(history, 1, current_index + 1), r.cmd)
             /\ current_index' = current_index + 1
             /\ phase' = NextPhase("redo")
             /\ cm_last' = [op |-> "redo", ret |-> TRUE,
                            calls |-> << <<history[current_index + 2].id, "execute", r.ret>> >>,
                            redone |-> Redone(history[current_index + 2])]
             /\ UNCHANGED <<next_cmd, discarded>>
    ELSE /\ phase' = NextPhase("redo")
         /\ cm_last' = [op |-> "redo", ret |-> FALSE, calls |-> <<>>,
                       redone |-> None]
         /\ UNCHANGED <<repo_data, history, current_index, next_cmd, discarded>>

redo ==
    IF current_index < Len(history) - 1
    THEN LET r == CmdExecute(history[current_index + 2], repo_data)
         IN  /\ repo_data' = r.data
             /\ history' = [history EXCEPT ![current_index + 2] = r.cmd]
             /\ current_index' = current_index + 1
             /\ phase' = NextPhase("redo")
             /\ cm_last' = [op |-> "redo", ret |-> TRUE,
                            calls |-> << <<history[current_index + 2].id, "execute", r.ret>> >>,
                            redone |-> Redone(history[current_index + 2])]
             /\ UNCHANGED <<next_cmd, discarded>>
    ELSE /\ phase' = NextPhase("redo")
         /\ cm_last' = [op |-> "redo", ret |-> FALSE, calls |-> <<>>,
                       redone |-> None]
         /\ UNCHANGED <<repo_data, history, current_index, next_cmd, discarded>>

(***************************************************************************)
(* PATTERN 3: EventBus                                                     *)
(***************************************************************************)
MaxSubs   == 3
MaxEvents == 3

\* The event types published and subscribed to, and the callbacks.
EventType == {"order_created", "inventory_checked"}
Handlers  == {"h1", "h2", "h3"}

Event(event_type, data, source) ==
    [event_type |-> event_type, data |-> data, source |-> source,
     timestamp |-> "2024-01-01T00:00:00Z"]

Events == {Event(t, [order_id |-> "O1"], "test") : t \in EventType}

\* The callbacks that raise an exception when invoked.
FailingHandlers == {"h2"}

Raises(callback) == callback \in FailingHandlers

NoBusCall ==
    [op |-> "none", event_type |-> "", handler |-> "", invoked |-> <<>>,
     caught |-> <<>>, raised |-> "", limit |-> 0, events |-> <<>>]

\* self.listeners[event_type].append(callback), the list created when missing
Subscribe_Prepend(ls, event_type, callback) ==
    IF event_type \notin DOMAIN ls
    THEN DictSet(ls, event_type, <<callback>>)
    ELSE DictSet(ls, event_type, <<callback>> \o ls[event_type])

Subscribe(ls, event_type, callback) ==
    IF event_type \notin DOMAIN ls
    THEN DictSet(ls, event_type, <<callback>>)
    ELSE DictSet(ls, event_type, Append(ls[event_type], callback))

subscribe(event_type, callback) ==
    /\ Len(subscribed) < MaxSubs
    /\ listeners' = Subscribe(listeners, event_type, callback)
    /\ subscribed' = Append(subscribed, <<event_type, callback>>)
    /\ bus_last' = [NoBusCall EXCEPT !.op = "subscribe", !.event_type = event_type,
                                     !.handler = callback]
    /\ UNCHANGED event_history

NoDispatch == [invoked |-> <<>>, caught |-> <<>>, raised |-> ""]

RECURSIVE Dispatch_NoCatch(_, _)
Dispatch_NoCatch(callbacks, i) ==
    IF i > Len(callbacks) THEN NoDispatch
    ELSE IF Raises(callbacks[i])
         THEN [NoDispatch EXCEPT !.invoked = <<callbacks[i]>>, !.raised = "Exception"]
         ELSE LET rest == Dispatch_NoCatch(callbacks, i + 1)
              IN  [rest EXCEPT !.invoked = <<callbacks[i]>> \o @]

\* for callback in self.listeners[event.event_type]:
\*     try: callback(event)
\*     except Exception: print(...)
\* from position i on: the callbacks invoked, in order of invocation, those
\* whose exception was caught, and the exception leaving the loop, if any.
RECURSIVE Dispatch(_, _)
Dispatch(callbacks, i) ==
    IF i > Len(callbacks) THEN NoDispatch
    ELSE LET rest == Dispatch(callbacks, i + 1)
         IN  [rest EXCEPT
                !.invoked = <<callbacks[i]>> \o @,
                !.caught = IF Raises(callbacks[i]) THEN <<callbacks[i]>> \o @ ELSE @]

publish(event) ==
    LET d == IF event.event_type \in DOMAIN listeners
             THEN Dispatch(listeners[event.event_type], 1)
             ELSE NoDispatch
    IN  /\ Len(event_history) < MaxEvents
        /\ event_history' = Append(event_history, event)
        /\ bus_last' = [NoBusCall EXCEPT
                          !.op = "publish", !.event_type = event.event_type,
                          !.invoked = d.invoked, !.caught = d.caught,
                          !.raised = d.raised]
        /\ UNCHANGED <<listeners, subscribed>>

\* seq[-limit:] as Python slices a list
RecentSlice(seq, limit) ==
    LET start   == -limit
        fromEnd == IF start < 0 THEN start + Len(seq) ELSE start
        first   == IF fromEnd < 0 THEN 0
                   ELSE IF fromEnd > Len(seq) THEN Len(seq) ELSE fromEnd
    IN  SubSeq(seq, first + 1, Len(seq))

get_recent_events(limit) ==
    /\ bus_last' = [NoBusCall EXCEPT !.op = "get_recent_events", !.limit = limit,
                                     !.events = RecentSlice(event_history, limit)]
    /\ UNCHANGED <<listeners, event_history, subscribed>>

(***************************************************************************)
(* PATTERN 5: FileRepository, and both repositories side by side.          *)
(* A Python value is tagged with its type; a string is a sequence of       *)
(* pieces, ".json" being one piece.                                        *)
(***************************************************************************)
PyStr(v)   == [py |-> "str", v |-> v]
PyInt(v)   == [py |-> "int", v |-> v]
PyTuple(v) == [py |-> "tuple", v |-> v]
PyEnum(v)  == [py |-> "enum", v |-> v]

\* The keys and records a caller saves: plain records, a record holding an
\* OrderState member (as the state machine's records do) and one holding a tuple.
StoreKeys == {<<"order_O1">>, <<"order_O2">>, <<"order_O1", ".json">>}

StoreRecords ==
    {[state |-> PyStr("created"), total |-> PyInt(0)],
     [state |-> PyStr("shipped"), total |-> PyInt(MaxTotal)],
     [state |-> PyEnum("created"), total |-> PyInt(0)],
     [items |-> PyTuple(<<"laptop", "mouse">>), total |-> PyInt(0)]}

\* json.dump raises TypeError on a value it cannot serialize; a tuple is
\* written as an array, which json.load reads back as a list.
Serializable(val) == val.py # "enum"

JsonValue(val) == IF val.py = "tuple" THEN [py |-> "list", v |-> val.v] ELSE val

\* What the file holds after open(..., "w") and json.dump(data, f): the document,
\* or the unparseable beginning of one when json.dump (or the write) fails.
Partial == [valid |-> FALSE, doc |-> EmptyDict]

JsonDump(rec) ==
    IF \A k \in DOMAIN rec : Serializable(rec[k])
    THEN [valid |-> TRUE, doc |-> [k \in DOMAIN rec |-> JsonValue(rec[k])]]
    ELSE Partial

\* f"{self.base_path}/{key}.json"
FileName(key) == key \o <<".json">>

\* The I/O faults of a call: none, an OSError on opening, removing or listing,
\* or an OSError while writing.
IOFaults == {"none", "oserror", "write"}

FileSave(files, key, rec, fault) ==
    IF fault = "oserror"
    THEN [files |-> files, ret |-> FALSE, raised |-> ""]
    ELSE LET written == IF fault = "write" THEN Partial ELSE JsonDump(rec)
         IN  [files |-> DictSet(files, FileName(key), written),
              ret |-> written.valid, raised |-> ""]

FileLoad_NoCatch(files, key, fault) ==
    IF fault # "none" \/ FileName(key) \notin DOMAIN files
    THEN [value |-> None, raised |-> "OSError"]
    ELSE IF ~files[FileName(key)].valid
    THEN [value |-> None, raised |-> "JSONDecodeError"]
    ELSE [value |-> Some(files[FileName(key)].doc), raised |-> ""]

FileLoad(files, key, fault) ==
    IF fault # "none" \/ FileName(key) \notin DOMAIN files
    THEN [value |-> None, raised |-> ""]
    ELSE IF ~files[FileName(key)].valid
    THEN [value |-> None, raised |-> ""]
    ELSE [value |-> Some(files[FileName(key)].doc), raised |-> ""]

FileDelete(files, key, fault) ==
    IF fault # "none" \/ FileName(key) \notin DOMAIN files
    THEN [files |-> files, ret |-> FALSE, raised |-> ""]
    ELSE [files |-> DictDel(files, FileName(key)), ret |-> TRUE, raised |-> ""]

\* f.endswith(".json") and f.replace(".json", "")
EndsWithJson(f) == Len(f) > 0 /\ f[Len(f)] = ".json"

ReplaceJson(f) == SelectSeq(f, LAMBDA piece : piece # ".json")

\* A list of keys in no particular order: key -> number of occurrences.
NoKeys == [k \in {} |-> 0]

FileListKeys(files, fault) ==
    IF fault # "none"
    THEN [keys |-> NoKeys, raised |-> ""]
    ELSE LET names == {f \in DOMAIN files : EndsWithJson(f)}
         IN  [keys |-> [k \in {ReplaceJson(f) : f \in names} |->
                           Cardinality({f \in names : ReplaceJson(f) = k})],
              raised |-> ""]

\* list(self.data.keys())
RepoListKeys(data) == [k \in DOMAIN data |-> 1]

NoStoreCall ==
    [op |-> "none", key |-> <<>>, rec |-> EmptyDict, fault |-> "none",
     mem_ret |-> FALSE, file_ret |-> FALSE, mem_value |-> None, file_value |-> None,
     mem_keys |-> NoKeys, file_keys |-> NoKeys, file_raised |-> ""]

\* The same call made on an InMemoryRepository and on a FileRepository.
store_save(key, rec, fault) ==
    LET f == FileSave(fs_files, key, rec, fault)
    IN  /\ repo_data' = RepoSave(repo_data, key, rec)
        /\ fs_files' = f.files
        /\ store_last' = [NoStoreCall EXCEPT
                            !.op = "save", !.key = key, !.rec = rec, !.fault = fault,
                            !.mem_ret = TRUE, !.file_ret = f.ret,
                            !.file_raised = f.raised]

store_load(key, fault) ==
    LET f == FileLoad(fs_files, key, fault)
    IN  /\ UNCHANGED <<repo_data, fs_files>>
        /\ store_last' = [NoStoreCall EXCEPT
                            !.op = "load", !.key = key, !.fault = fault,
                            !.mem_value = RepoLoad(repo_data, key),
                            !.file_value = f.value, !.file_raised = f.raised]

store_delete(key, fault) ==
    LET m == RepoDelete(repo_data, key)
        f == FileDelete(fs_files, key, fault)
    IN  /\ repo_data' = m.data
        /\ fs_files' = f.files
        /\ store_last' = [NoStoreCall EXCEPT
                            !.op = "delete", !.key = key, !.fault = fault,
                            !.mem_ret = m.ret, !.file_ret = f.ret,
                            !.file_raised = f.raised]

store_list_keys(fault) ==
    LET f == FileListKeys(fs_files, fault)
    IN  /\ UNCHANGED <<repo_data, fs_files>>
        /\ store_last' = [NoStoreCall EXCEPT
                            !.op = "list_keys", !.fault = fault,
                            !.mem_keys = RepoListKeys(repo_data),
                            !.file_keys = f.keys, !.file_raised = f.raised]

(***************************************************************************)
(* OrderStateManager and the tools that drive the global instance          *)
(* state_manager.  Of state_history, a log that is only appended to, the   *)
(* model keeps the number of entries.                                      *)
(***************************************************************************)
MaxLog == 14

InitialInventory == [laptop |-> 10, mouse |-> 50, keyboard |-> 30, monitor |-> 15]

\* len(item) of the item names that are in the inventory.
ItemNameLen == [laptop |-> 6, mouse |-> 5, keyboard |-> 8, monitor |-> 7]

\* The items argument of the tools: the pieces between the commas.
MgrItems == {<<"laptop">>, <<"laptop", " laptop">>, <<"tablet">>}

\* item.strip()
Strip(piece) == IF piece = " laptop" THEN "laptop" ELSE piece

\* [item.strip() for item in items.split(",")]
SplitItems(items) == [i \in DOMAIN items |-> Strip(items[i])]

MgrNewOrder(order_id, customer_id, items) ==
    [order_id          |-> order_id,
     customer_id       |-> customer_id,
     items             |-> items,
     status            |-> "created",
     total             |-> 0,
     payment_status    |-> "pending",
     inventory_checked |-> FALSE,
     shipping_status   |-> "not_shipped",
     created_at        |-> "2024-01-01T00:00:00Z"]

\* OrderStateManager.get_current_order: None when there is no current order.
MgrCurrentOrder ==
    IF mgr_current_order_id # None /\ mgr_current_order_id[1] \in DOMAIN mgr_orders
    THEN Some(mgr_orders[mgr_current_order_id[1]])
    ELSE None

\* OrderStateManager.check_inventory: the availability and the total price.
RECURSIVE MgrCheckInventory(_, _)
MgrCheckInventory(inventory, items) ==
    IF items = <<>> THEN [available |-> TRUE, total |-> 0]
    ELSE LET item == Head(items)
             rest == MgrCheckInventory(inventory, Tail(items))
         IN  IF item \in DOMAIN inventory /\ inventory[item] > 0
             THEN [available |-> rest.available,
                   total     |-> ItemNameLen[item] * 10 + rest.total]
             ELSE [available |-> FALSE, total |-> rest.total]

\* The second loop of reserve_inventory: one decrement per list entry.
RECURSIVE MgrDecrement(_, _)
MgrDecrement(inventory, items) ==
    IF items = <<>> THEN inventory
    ELSE MgrDecrement([inventory EXCEPT ![Head(items)] = @ - 1], Tail(items))

\* OrderStateManager.reserve_inventory: every entry is checked against the
\* quantities as they are before any decrement.
MgrReserveInventory(inventory, items) ==
    IF \E i \in DOMAIN items :
          items[i] \notin DOMAIN inventory \/ inventory[items[i]] <= 0
    THEN [inventory |-> inventory, ret |-> FALSE]
    ELSE [inventory |-> MgrDecrement(inventory, items), ret |-> TRUE]

\* OrderStateManager.update_order on an order that exists.
MgrUpdateOrder(orders, order_id, updates) ==
    [orders EXCEPT ![order_id] = DictUpdate(@, updates)]

NoMgrCall == [op |-> "none", result |-> "", items |-> <<>>, reserved |-> FALSE]

create_order_global(order_id, customer_id, items) ==
    LET items_list == SplitItems(items)
    IN  /\ mgr_state_history + 1 <= MaxLog
        /\ mgr_orders' = DictSet(mgr_orders, order_id,
                                 MgrNewOrder(order_id, customer_id, items_list))
        /\ mgr_current_order_id' = Some(order_id)
        /\ mgr_state_history' = mgr_state_history + 1
        /\ mgr_last' = [NoMgrCall EXCEPT !.op = "create_order_global",
                                         !.result = "created",
                                         !.items = items_list]
        /\ UNCHANGED mgr_inventory

check_inventory_global ==
    LET current == MgrCurrentOrder
    IN  IF current = None
        THEN /\ mgr_last' = [NoMgrCall EXCEPT !.op = "check_inventory_global",
                                              !.result = "no_current_order"]
             /\ UNCHANGED <<mgr_orders, mgr_current_order_id, mgr_inventory,
                            mgr_state_history>>
        ELSE LET order  == current[1]
                 result == MgrCheckInventory(mgr_inventory, order.items)
                 res    == MgrReserveInventory(mgr_inventory, order.items)
                 logged == mgr_state_history + 1
             IN  IF result.available
                 THEN /\ mgr_state_history + 2 <= MaxLog
                      /\ mgr_orders' = MgrUpdateOrder(mgr_orders, order.order_id,
                            [inventory_checked |-> TRUE,
                             total             |-> result.total,
                             status            |-> "inventory_confirmed"])
                      /\ mgr_inventory' = res.inventory
                      /\ mgr_state_history' =
                            IF res.ret THEN logged + 1 ELSE logged
                      /\ mgr_last' = [op       |-> "check_inventory_global",
                                      result   |-> "confirmed",
                                      items    |-> order.items,
                                      reserved |-> res.ret]
                      /\ UNCHANGED mgr_current_order_id
                 ELSE /\ mgr_last' = [NoMgrCall EXCEPT
                                         !.op = "check_inventory_global",
                                         !.result = "insufficient",
                                         !.items = order.items]
                      /\ UNCHANGED <<mgr_orders, mgr_current_order_id,
                                     mgr_inventory, mgr_state_history>>

process_payment_global ==
    LET current == MgrCurrentOrder
    IN  IF current = None \/ ~current[1].inventory_checked
        THEN /\ mgr_last' = [NoMgrCall EXCEPT
                                !.op = "process_payment_global",
                                !.result = IF current = None
                                           THEN "no_current_order"
                                           ELSE "inventory_not_checked"]
             /\ UNCHANGED <<mgr_orders, mgr_current_order_id, mgr_inventory,
                            mgr_state_history>>
        ELSE /\ mgr_state_history + 1 <= MaxLog
             /\ mgr_orders' = MgrUpdateOrder(mgr_orders, current[1].order_id,
                                 [payment_status |-> "paid",
                                  status         |-> "payment_confirmed"])
             /\ mgr_state_history' = mgr_state_history + 1
             /\ mgr_last' = [NoMgrCall EXCEPT !.op = "process_payment_global",
                                              !.result = "paid"]
             /\ UNCHANGED <<mgr_current_order_id, mgr_inventory>>

ship_order_global ==
    LET current == MgrCurrentOrder
    IN  IF current = None \/ current[1].payment_status # "paid"
        THEN /\ mgr_last' = [NoMgrCall EXCEPT
                                !.op = "ship_order_global",
                                !.result = IF current = None
                                           THEN "no_current_order"
                                           ELSE "payment_not_confirmed"]
             /\ UNCHANGED <<mgr_orders, mgr_current_order_id, mgr_inventory,
                            mgr_state_history>>
        ELSE /\ mgr_state_history + 1 <= MaxLog
             /\ mgr_orders' = MgrUpdateOrder(mgr_orders, current[1].order_id,
                                 [shipping_status |-> "shipped",
                                  status          |-> "completed"])
             /\ mgr_state_history' = mgr_state_history + 1
             /\ mgr_last' = [NoMgrCall EXCEPT !.op = "ship_order_global",
                                              !.result = "shipped"]
             /\ UNCHANGED <<mgr_current_order_id, mgr_inventory>>

(***************************************************************************)
(* The facade tools over the global state_machine, repository (in memory)  *)
(* and command_manager.                                                    *)
(***************************************************************************)
\* The new_state argument of update_order_state: the state values, one in
\* upper case and a name that is no state.
StateNames == OrderState \cup {"INVENTORY_CHECKED", "archived"}

\* The number of commands the facade tools construct in one run.
MaxToolCmds == 2

\* The total argument of update_order_state: the default and a positive total.
ToolTotals == {0, MaxTotal}

\* new_state.lower()
Lower(name) == IF name = "INVENTORY_CHECKED" THEN "inventory_checked" ELSE name

NoToolCall ==
    [op |-> "none", order_id |-> "", new_state |-> "", total |-> 0,
     result |-> "", from |-> ""]

\* order_data of a CreateOrderCommand made by create_order_advanced is the
\* state machine's own dict of the order, not a copy: the command objects see
\* every later change of that record.
Aliased(h, order_id, rec) ==
    [i \in DOMAIN h |->
        IF h[i].kind = "create" /\ h[i].order_id = order_id
        THEN [h[i] EXCEPT !.payload = rec]
        ELSE h[i]]

create_order_advanced(order_id, customer_id, items) ==
    LET items_list == SplitItems(items)
        call == [NoToolCall EXCEPT !.op = "create_order_advanced",
                                   !.order_id = order_id]
    IN  IF order_id \in DOMAIN sm_orders
        THEN \* state_machine.create_order returns False: the tool returns
             /\ create_order(order_id, customer_id, items_list)
             /\ tool_last' = [call EXCEPT !.result = "already_exists"]
             /\ UNCHANGED cmdVars
        ELSE \* create_order, then get_order for the command's order_data
             /\ next_cmd <= MaxToolCmds
             /\ sm_orders' = DictSet(sm_orders, order_id,
                                     NewOrder(order_id, customer_id, items_list))
             /\ sm_last' = [NoCall EXCEPT !.op = "get_order",
                                          !.order_id = order_id,
                                          !.ret = TRUE]
             /\ execute_command(
                   CreateOrderCommand(next_cmd, order_id,
                       NewOrder(order_id, customer_id, items_list)))
             /\ tool_last' = [call EXCEPT !.result = "created"]

\* The two checks that let update_order_state go on to the command: the name
\* is a state value, and can_transition_to holds.
Accepts_NoTransitionCheck(orders, order_id, new_state) ==
    Lower(new_state) \in OrderState

Accepts(orders, order_id, new_state) ==
    /\ Lower(new_state) \in OrderState
    /\ CanTransitionTo(orders, order_id, Lower(new_state))

update_order_state(order_id, new_state, total) ==
    LET state_enum == Lower(new_state)
        call == [NoToolCall EXCEPT !.op = "update_order_state",
                                   !.order_id = order_id,
                                   !.new_state = new_state, !.total = total]
    IN  IF state_enum \notin OrderState
        THEN \* OrderState(...) raises ValueError
             /\ tool_last' = [call EXCEPT !.result = "invalid_state"]
             /\ UNCHANGED <<smVars, cmdVars>>
        ELSE IF ~Accepts(sm_orders, order_id, new_state)
        THEN /\ tool_last' =
                   [call EXCEPT !.result = "invalid_transition",
                                !.from = IF order_id \in DOMAIN sm_orders
                                         THEN sm_orders[order_id].state
                                         ELSE "unknown"]
             /\ sm_last' = [NoCall EXCEPT !.op = "get_order",
                                          !.order_id = order_id,
                                          !.ret = order_id \in DOMAIN sm_orders]
             /\ UNCHANGED <<sm_orders, cmdVars>>
        ELSE LET updates == IF total > 0 THEN [total |-> total] ELSE EmptyDict
                 command == UpdateOrderCommand(next_cmd, order_id, updates)
                 r       == CmdExecute(command, repo_data)
                 kept    == Truncate(history, current_index)
                 outcome == TransitionOutcome(sm_orders, order_id, state_enum)
                 orders  == IF outcome = "True"
                            THEN [sm_orders EXCEPT ![order_id] =
                                     TransitionRecord(@, state_enum, updates)]
                            ELSE sm_orders
                 smcall  == [NoCall EXCEPT !.op = "transition_to",
                                           !.order_id = order_id,
                                           !.new_state = state_enum,
                                           !.data = updates]
             IN  /\ next_cmd <= MaxToolCmds
                 /\ repo_data' = r.data
                 /\ history' =
                       IF outcome = "True"
                       THEN Aliased(Append(kept, r.cmd), order_id, orders[order_id])
                       ELSE Append(kept, r.cmd)
                 /\ current_index' = current_index + 1
                 /\ next_cmd' = next_cmd + 1
                 /\ discarded' = discarded \cup (Ids(history) \ Ids(kept))
                 /\ phase' = NextPhase("execute_command")
                 /\ cm_last' = [op |-> "execute_command", ret |-> r.ret,
                                calls |-> << <<command.id, "execute", r.ret>> >>,
                       redone |-> None]
                 /\ sm_orders' = orders
                 /\ sm_last' =
                       CASE outcome = "True"  -> [smcall EXCEPT !.ret = TRUE]
                         [] outcome = "False" -> [smcall EXCEPT !.ret = FALSE]
                         [] outcome = "ValueError" ->
                               [smcall EXCEPT !.raised = "ValueError"]
                 /\ tool_last' =
                       [call EXCEPT !.result = IF outcome = "ValueError"
                                               THEN "invalid_state"
                                               ELSE "transitioned"]

undo_last_operation_RevertsMachine ==
    /\ undo
    /\ tool_last' = [NoToolCall EXCEPT
                        !.op = "undo_last_operation",
                        !.result = IF current_index >= 0 THEN "undone"
                                   ELSE "nothing_to_undo"]
    /\ sm_orders' =
          IF current_index >= 0
                /\ history[current_index + 1].order_id \in DOMAIN sm_orders
          THEN [sm_orders EXCEPT ![history[current_index + 1].order_id].state =
                                    "created"]
          ELSE sm_orders
    /\ UNCHANGED sm_last

undo_last_operation ==
    /\ undo
    /\ tool_last' = [NoToolCall EXCEPT
                        !.op = "undo_last_operation",
                        !.result = IF current_index >= 0 THEN "undone"
                                   ELSE "nothing_to_undo"]
    /\ UNCHANGED smVars

redo_last_operation ==
    /\ redo
    /\ tool_last' = [NoToolCall EXCEPT
                        !.op = "redo_last_operation",
                        !.result = IF current_index < Len(history) - 1
                                   THEN "redone" ELSE "nothing_to_redo"]
    /\ UNCHANGED smVars

get_order_info_advanced(order_id) ==
    /\ tool_last' = [NoToolCall EXCEPT
                        !.op = "get_order_info_advanced",
                        !.order_id = order_id,
                        !.result = IF Truthy(RepoLoad(repo_data, OrderKey(order_id)))
                                   THEN "found" ELSE "not_found"]
    /\ UNCHANGED <<smVars, cmdVars>>

(***************************************************************************)
(* PATTERN 3: ReactiveOrderState over its own EventBus (the global         *)
(* instances reactive_state and event_bus).  A publish runs its handlers   *)
(* on the caller's stack; the model runs one whole method call, nested     *)
(* publishes included, as one step and keeps the order of what happened    *)
(* in the call trace.                                                      *)
(***************************************************************************)
ReactiveInventory == [laptop |-> 5, mouse |-> 20, keyboard |-> 15, monitor |-> 8]

\* The order in which self.inventory.items() yields the items.
InventoryItems == <<"laptop", "mouse", "keyboard", "monitor">>

DefaultListeners_Cycle ==
    [inventory_checked |-> <<"_on_inventory_checked", "_check_low_inventory">>,
     payment_processed |-> <<"_on_payment_processed">>,
     order_shipped     |-> <<"_on_order_shipped">>,
     inventory_low     |-> <<"_check_low_inventory">>]

DefaultListeners_MonitorFirst ==
    [inventory_checked |-> <<"_check_low_inventory", "_on_inventory_checked">>,
     payment_processed |-> <<"_on_payment_processed">>,
     order_shipped     |-> <<"_on_order_shipped">>]

\* The listeners after ReactiveOrderState._setup_event_listeners.
DefaultListeners ==
    [inventory_checked |-> <<"_on_inventory_checked", "_check_low_inventory">>,
     payment_processed |-> <<"_on_payment_processed">>,
     order_shipped     |-> <<"_on_order_shipped">>]

NoReactiveCall ==
    [op |-> "none", order_id |-> "", result |-> "", trace |-> <<>>,
     overflow |-> FALSE]

NoOrchCall == [op |-> "none", result |-> ""]

MaxRxEvents == 7
MaxDepth    == 3
MaxProbes   == 2

\* The arguments of the ReactiveOrderState methods.
RxOrderIds  == {"O1"}
RxLookupIds == {"O1", "O2"}
RxItemLists == {<<"laptop", "laptop", "laptop">>, <<"tablet">>}

\* Everything a method call works on: the bus, the reactive state and the
\* trace of the call.  order_refs[i] names the order whose dict (the one now
\* in orders) the data of event i holds as its "order", or is "".
RxState ==
    [listeners     |-> event_bus.listeners,
     event_history |-> event_bus.event_history,
     order_refs    |-> event_bus.order_refs,
     orders        |-> reactive_state.orders,
     inventory     |-> reactive_state.inventory,
     notifications |-> reactive_state.notifications,
     trace         |-> <<>>,
     overflow      |-> FALSE]

RxNotify(st, text) ==
    [st EXCEPT !.notifications = Append(@, text),
               !.trace = Append(@, <<"notify", text[1]>>)]

\* _on_inventory_checked
OnInventoryChecked(st, event) ==
    IF event.data.available
    THEN RxNotify(st, <<"Inventory confirmed for order", event.data.order_id>>)
    ELSE RxNotify(st, <<"Inventory insufficient for order", event.data.order_id>>)

\* _on_payment_processed
OnPaymentProcessed(st, event) ==
    RxNotify(st, <<"Payment processed for order", event.data.order_id>>)

\* _on_order_shipped
OnOrderShipped(st, event) ==
    IF event.data.order_id \in DOMAIN st.orders
    THEN RxNotify(st, <<"Order shipped to customer", event.data.order_id,
                        st.orders[event.data.order_id].customer_id>>)
    ELSE st

RECURSIVE RxPublish(_, _, _, _)
RECURSIVE RxDispatch(_, _, _, _, _)
RECURSIVE CheckLowInventory(_, _, _)

\* A publish made by a handler while an event is being dispatched.
RxNested_Deferred(st, event, depth) ==
    [st EXCEPT !.event_history = Append(@, event),
               !.order_refs = Append(@, ""),
               !.trace = Append(@, <<"append", event.event_type>>)]

RxNested(st, event, depth) == RxPublish(st, event, "", depth + 1)

\* _check_low_inventory, from item i of the inventory on.
CheckLowInventory(st, i, depth) ==
    IF i > Len(InventoryItems) \/ st.overflow THEN st
    ELSE LET item     == InventoryItems[i]
             quantity == st.inventory[item]
         IN  IF quantity <= 2
             THEN CheckLowInventory(
                      RxNested(st, Event("inventory_low",
                                         [item |-> item, quantity |-> quantity],
                                         "inventory_monitor"), depth),
                      i + 1, depth)
             ELSE CheckLowInventory(st, i + 1, depth)

\* callback(event); "probe" is a callback of a caller that only observes.
RxHandler(st, callback, event, depth) ==
    CASE callback = "_on_inventory_checked" -> OnInventoryChecked(st, event)
      [] callback = "_on_payment_processed" -> OnPaymentProcessed(st, event)
      [] callback = "_on_order_shipped"     -> OnOrderShipped(st, event)
      [] callback = "_check_low_inventory"  -> CheckLowInventory(st, 1, depth)
      [] callback = "probe"                 -> st

\* for callback in self.listeners[event.event_type]: callback(event)
RxDispatch(st, callbacks, i, event, depth) ==
    IF i > Len(callbacks) \/ st.overflow THEN st
    ELSE LET called   == [st EXCEPT !.trace =
                             Append(@, <<"call", callbacks[i], event.event_type>>)]
             after    == RxHandler(called, callbacks[i], event, depth)
             returned == [after EXCEPT !.trace =
                             Append(@, <<"return", callbacks[i], event.event_type>>)]
         IN  RxDispatch(returned, callbacks, i + 1, event, depth)

\* EventBus.publish at nesting depth depth; beyond MaxDepth the call stack is
\* taken to be exhausted.
RxPublish(st, event, ref, depth) ==
    IF depth > MaxDepth THEN [st EXCEPT !.overflow = TRUE]
    ELSE LET appended == [st EXCEPT
                             !.event_history = Append(@, event),
                             !.order_refs = Append(@, ref),
                             !.trace = Append(@, <<"append", event.event_type>>)]
         IN  IF event.event_type \in DOMAIN st.listeners
             THEN RxDispatch(appended, st.listeners[event.event_type], 1,
                             event, depth)
             ELSE appended

\* The events that hold an order's dict show that dict as it is now.
RxAlias(h, refs, orders) ==
    [i \in DOMAIN h |->
        IF refs[i] # "" THEN [h[i] EXCEPT !.data = [order |-> orders[refs[i]]]]
        ELSE h[i]]

\* The variables after a method call that ended in st; calls are made while
\* the history holds fewer than MaxRxEvents events.
RxCommit(st, current_order_id, call) ==
    /\ Len(event_bus.event_history) < MaxRxEvents
    /\ event_bus' =
          [listeners     |-> st.listeners,
           event_history |-> RxAlias(st.event_history, st.order_refs, st.orders),
           order_refs    |-> st.order_refs]
    /\ reactive_state' =
          [orders           |-> st.orders,
           current_order_id |-> current_order_id,
           inventory        |-> st.inventory,
           notifications    |-> st.notifications]
    /\ reactive_last' = [call EXCEPT !.trace = st.trace,
                                     !.overflow = st.overflow]

RxNewOrder(order_id, customer_id, items) ==
    [order_id          |-> order_id,
     customer_id       |-> customer_id,
     items             |-> items,
     status            |-> "created",
     total             |-> 0,
     payment_status    |-> "pending",
     inventory_checked |-> FALSE,
     shipping_status   |-> "not_shipped"]

\* ReactiveOrderState.create_order: the new dict takes the place of any dict
\* stored under order_id, which the earlier events keep as it was.
reactive_create_order(order_id, customer_id, items, source) ==
    LET order == RxNewOrder(order_id, customer_id, items)
        st    == [RxState EXCEPT
                     !.orders = DictSet(@, order_id, order),
                     !.order_refs = [i \in DOMAIN @ |->
                                        IF @[i] = order_id THEN "" ELSE @[i]]]
        done  == RxPublish(st, Event("order_created", [order |-> order], source),
                           order_id, 1)
    IN  RxCommit(done, Some(order_id),
                 [NoReactiveCall EXCEPT !.op = "create_order",
                                        !.order_id = order_id,
                                        !.result = "order"])

\* ReactiveOrderState.check_inventory.  The loop stops at the first item that
\* is not available; the total is used only when every item is available.
reactive_check_inventory(order_id, source) ==
    LET call == [NoReactiveCall EXCEPT !.op = "check_inventory",
                                       !.order_id = order_id]
        cur  == reactive_state.current_order_id
    IN  IF order_id \notin DOMAIN reactive_state.orders
        THEN RxCommit(RxState, cur, [call EXCEPT !.result = "Order not found"])
        ELSE LET order   == reactive_state.orders[order_id]
                 checked == MgrCheckInventory(reactive_state.inventory, order.items)
                 total   == IF checked.available THEN checked.total ELSE 0
                 updated == IF checked.available
                            THEN [order EXCEPT !.inventory_checked = TRUE,
                                               !.total = total,
                                               !.status = "inventory_confirmed"]
                            ELSE [order EXCEPT !.inventory_checked = TRUE,
                                               !.status = "inventory_insufficient"]
                 st      == [RxState EXCEPT !.orders[order_id] = updated]
                 done    == RxPublish(st,
                               Event("inventory_checked",
                                     [order_id  |-> order_id,
                                      total     |-> total,
                                      available |-> checked.available],
                                     source), "", 1)
             IN  RxCommit(done, cur,
                          [call EXCEPT !.result =
                              IF checked.available THEN "success"
                              ELSE "Insufficient inventory"])

reactive_process_payment_Unchecked(order_id, source) ==
    LET call == [NoReactiveCall EXCEPT !.op = "process_payment",
                                       !.order_id = order_id]
        cur  == reactive_state.current_order_id
    IN  IF order_id \notin DOMAIN reactive_state.orders
        THEN RxCommit(RxState, cur,
                      [call EXCEPT !.result = "Cannot process payment"])
        ELSE LET order == reactive_state.orders[order_id]
                 st    == [RxState EXCEPT
                              !.orders[order_id].payment_status = "paid",
                              !.orders[order_id].status = "payment_confirmed"]
                 done  == RxPublish(st,
                             Event("payment_processed",
                                   [order_id |-> order_id, amount |-> order.total],
                                   source), "", 1)
             IN  RxCommit(done, cur, [call EXCEPT !.result = "success"])

\* ReactiveOrderState.process_payment
reactive_process_payment(order_id, source) ==
    LET call == [NoReactiveCall EXCEPT !.op = "process_payment",
                                       !.order_id = order_id]
        cur  == reactive_state.current_order_id
    IN  IF \/ order_id \notin DOMAIN reactive_state.orders
           \/ ~reactive_state.orders[order_id].inventory_checked
        THEN RxCommit(RxState, cur,
                      [call EXCEPT !.result = "Cannot process payment"])
        ELSE LET order == reactive_state.orders[order_id]
                 st    == [RxState EXCEPT
                              !.orders[order_id].payment_status = "paid",
                              !.orders[order_id].status = "payment_confirmed"]
                 done  == RxPublish(st,
                             Event("payment_processed",
                                   [order_id |-> order_id, amount |-> order.total],
                                   source), "", 1)
             IN  RxCommit(done, cur, [call EXCEPT !.result = "success"])

\* The loop of ship_order: a decrement per list entry whose item is in stock.
RECURSIVE RxShipDecrement(_, _)
RxShipDecrement(inventory, items) ==
    IF items = <<>> THEN inventory
    ELSE LET item == Head(items)
         IN  IF item \in DOMAIN inventory /\ inventory[item] > 0
             THEN RxShipDecrement([inventory EXCEPT ![item] = @ - 1], Tail(items))
             ELSE RxShipDecrement(inventory, Tail(items))

\* ReactiveOrderState.ship_order
reactive_ship_order(order_id, source) ==
    LET call == [NoReactiveCall EXCEPT !.op = "ship_order",
                                       !.order_id = order_id]
        cur  == reactive_state.current_order_id
    IN  IF \/ order_id \notin DOMAIN reactive_state.orders
           \/ reactive_state.orders[order_id].payment_status # "paid"
        THEN RxCommit(RxState, cur, [call EXCEPT !.result = "Cannot ship order"])
        ELSE LET order   == reactive_state.orders[order_id]
                 shipped == [order EXCEPT !.shipping_status = "shipped",
                                          !.status = "completed"]
                 st      == [RxState EXCEPT
                                !.inventory = RxShipDecrement(@, order.items),
                                !.orders[order_id] = shipped]
                 first   == RxPublish(st,
                               Event("order_shipped", [order_id |-> order_id],
                                     source), "", 1)
                 done    == RxPublish(first,
                               Event("order_completed", [order |-> shipped],
                                     source), order_id, 1)
             IN  RxCommit(done, cur, [call EXCEPT !.result = "success"])

\* event_bus.subscribe(event_type, callback) by a caller, after the wiring.
Probes(ls) ==
    {<<t, i>> \in (DOMAIN ls) \X (1..MaxProbes + 2) :
        i <= Len(ls[t]) /\ ls[t][i] = "probe"}

reactive_subscribe(event_type, callback) ==
    /\ Cardinality(Probes(event_bus.listeners)) < MaxProbes
    /\ event_bus' = [event_bus EXCEPT
                        !.listeners = Subscribe(@, event_type, callback)]
    /\ reactive_last' = [NoReactiveCall EXCEPT !.op = "subscribe"]
    /\ UNCHANGED reactive_state

(***************************************************************************)
(* The orchestrator variant: the tools keep every order in agent.state,    *)
(* a key -> value store, under "order_<id>", and the id of the order they  *)
(* work on under "current_order_id".                                       *)
(***************************************************************************)
OrchOrderIds == {"O1", "O2"}

\* The items argument of create_order after items.split(","): the pieces
\* keep their blanks.
OrchItems == {<<"laptop">>, <<"laptop", " mouse">>}

\* len(item) of those pieces.
PieceLen == ("laptop" :> 6) @@ (" mouse" :> 6)

\* agent.state.get(key): None for a key that was never set.
StateGet(key) ==
    IF key \in DOMAIN agent_state THEN Some(agent_state[key]) ELSE None

OrchNewOrder(order_id, customer_id, items) ==
    [order_id          |-> order_id,
     customer_id       |-> customer_id,
     items             |-> items,
     status            |-> "created",
     total             |-> 0,
     payment_status    |-> "pending",
     inventory_checked |-> FALSE,
     shipping_status   |-> "not_shipped"]

\* The pricing loop of check_inventory: len(item) * 10 per piece.
RECURSIVE OrchTotal(_)
OrchTotal(items) ==
    IF items = <<>> THEN 0
    ELSE PieceLen[Head(items)] * 10 + OrchTotal(Tail(items))

\* The two look-ups every tool but create_order starts with: the result of
\* the early return, or "" and the order to work on.
OrchLookup ==
    LET current_order_id == StateGet("current_order_id")
    IN  IF current_order_id = None
        THEN [result |-> "no_current_order", order |-> None]
        ELSE LET order == StateGet(OrderKey(current_order_id[1]))
             IN  IF order = None
                 THEN [result |-> "order_not_found", order |-> None]
                 ELSE [result |-> "", order |-> order]

\* A tool call that returns its message without setting anything.
OrchReturn(op, result) ==
    /\ orch_last' = [op |-> op, result |-> result]
    /\ UNCHANGED agent_state

\* The update of the order followed by agent.state.set(f"order_{id}", order).
OrchStore(op, result, order) ==
    /\ agent_state' = DictSet(agent_state, OrderKey(order.order_id), order)
    /\ orch_last' = [op |-> op, result |-> result]

orch_create_order(order_id, customer_id, items) ==
    /\ agent_state' =
          DictSet(DictSet(agent_state, OrderKey(order_id),
                          OrchNewOrder(order_id, customer_id, items)),
                  "current_order_id", order_id)
    /\ orch_last' = [op |-> "create_order", result |-> "created"]

orch_check_inventory ==
    LET found == OrchLookup
    IN  IF found.result # ""
        THEN OrchReturn("check_inventory", found.result)
        ELSE LET order == found.order[1]
             IN  OrchStore("check_inventory", "checked",
                    [order EXCEPT !.inventory_checked = TRUE,
                                  !.total  = OrchTotal(order.items),
                                  !.status = "inventory_confirmed"])

\* The payment tool without its inventory_checked guard.
orch_process_payment_Unchecked ==
    LET found == OrchLookup
    IN  IF found.result # ""
        THEN OrchReturn("process_payment", found.result)
        ELSE OrchStore("process_payment", "paid",
                [found.order[1] EXCEPT !.payment_status = "paid",
                                       !.status = "payment_confirmed"])

orch_process_payment ==
    LET found == OrchLookup
    IN  IF found.result # ""
        THEN OrchReturn("process_payment", found.result)
        ELSE IF ~found.order[1].inventory_checked
        THEN OrchReturn("process_payment", "inventory_not_checked")
        ELSE OrchStore("process_payment", "paid",
                [found.order[1] EXCEPT !.payment_status = "paid",
                                       !.status = "payment_confirmed"])

orch_ship_order ==
    LET found == OrchLookup
    IN  IF found.result # ""
        THEN OrchReturn("ship_order", found.result)
        ELSE IF found.order[1].payment_status # "paid"
        THEN OrchReturn("ship_order", "payment_not_confirmed")
        ELSE OrchStore("ship_order", "shipped",
                [found.order[1] EXCEPT !.shipping_status = "shipped",
                                       !.status = "completed"])

(***************************************************************************)
(* The state after construction, and the specifications.                   *)
(***************************************************************************)
Init ==
    /\ sm_orders = EmptyDict
    /\ sm_last = NoCall
    /\ repo_data = EmptyDict
    /\ history = <<>>
    /\ current_index = -1
    /\ next_cmd = 1
    /\ discarded = {}
    /\ phase = "exec"
    /\ cm_last = [op |-> "none", ret |-> FALSE, calls |-> <<>>, redone |-> None]
    /\ listeners = EmptyDict
    /\ event_history = <<>>
    /\ subscribed = <<>>
    /\ bus_last = NoBusCall
    /\ fs_files = EmptyDict
    /\ store_last = NoStoreCall
    /\ mgr_orders = EmptyDict
    /\ mgr_current_order_id = None
    /\ mgr_inventory = InitialInventory
    /\ mgr_state_history = 0
    /\ mgr_last = NoMgrCall
    /\ tool_last = NoToolCall
    /\ event_bus = [listeners     |-> DefaultListeners,
                    event_history |-> <<>>,
                    order_refs    |-> <<>>]
    /\ reactive_state = [orders            |-> EmptyDict,
                         current_order_id  |-> None,
                         inventory         |-> ReactiveInventory,
                         notifications     |-> <<>>]
    /\ reactive_last = NoReactiveCall
    /\ agent_state = EmptyDict
    /\ orch_last = NoOrchCall

\* The OrderStateMachine driven through its methods.
SM_create_order ==
    /\ \E o \in OrderIds, c \in CustomerIds, items \in ItemLists :
          create_order(o, c, items)
    /\ UNCHANGED <<cmdVars, busVars, storeVars, mgrVars, toolVars, rxVars, orchVars>>

SM_transition_to ==
    /\ \E o \in OrderIds, s \in OrderState, d \in TransitionData :
          transition_to(o, s, d)
    /\ UNCHANGED <<cmdVars, busVars, storeVars, mgrVars, toolVars, rxVars, orchVars>>

SM_can_transition_to ==
    /\ \E o \in OrderIds, s \in OrderState : can_transition_to(o, s)
    /\ UNCHANGED <<cmdVars, busVars, storeVars, mgrVars, toolVars, rxVars, orchVars>>

SM_get_order ==
    /\ \E o \in OrderIds : get_order(o)
    /\ UNCHANGED <<cmdVars, busVars, storeVars, mgrVars, toolVars, rxVars, orchVars>>

NextSM ==
    \/ SM_create_order
    \/ SM_transition_to
    \/ SM_can_transition_to
    \/ SM_get_order

SpecSM == Init /\ [][NextSM]_vars

\* The CommandManager driven through its methods, on the in-memory repository.
CM_execute_command ==
    /\ \E command \in NewCommands(next_cmd) : execute_command(command)
    /\ UNCHANGED <<smVars, busVars, storeVars, mgrVars, toolVars, rxVars, orchVars>>

CM_undo == undo /\ UNCHANGED <<smVars, busVars, storeVars, mgrVars, toolVars, rxVars, orchVars>>

CM_redo == redo /\ UNCHANGED <<smVars, busVars, storeVars, mgrVars, toolVars, rxVars, orchVars>>

NextCmd ==
    \/ CM_execute_command
    \/ CM_undo
    \/ CM_redo

SpecCmd == Init /\ [][NextCmd]_vars

\* The EventBus driven through its methods.
Bus_subscribe ==
    /\ \E t \in EventType, h \in Handlers : subscribe(t, h)
    /\ UNCHANGED <<smVars, cmdVars, storeVars, mgrVars, toolVars, rxVars, orchVars>>

Bus_publish ==
    /\ \E e \in Events : publish(e)
    /\ UNCHANGED <<smVars, cmdVars, storeVars, mgrVars, toolVars, rxVars, orchVars>>

Bus_get_recent_events ==
    /\ \E limit \in 0..(MaxEvents + 1) : get_recent_events(limit)
    /\ UNCHANGED <<smVars, cmdVars, storeVars, mgrVars, toolVars, rxVars, orchVars>>

NextBus ==
    \/ Bus_subscribe
    \/ Bus_publish
    \/ Bus_get_recent_events

SpecBus == Init /\ [][NextBus]_vars

\* Both repositories driven through their methods; the file system works.
storeFrame == <<sm_orders, sm_last, history, current_index, next_cmd, discarded,
                phase, cm_last, busVars, mgrVars, toolVars, rxVars, orchVars>>

Store_save ==
    /\ \E key \in StoreKeys, rec \in StoreRecords : store_save(key, rec, "none")
    /\ UNCHANGED storeFrame

Store_load ==
    /\ \E key \in StoreKeys : store_load(key, "none")
    /\ UNCHANGED storeFrame

Store_delete ==
    /\ \E key \in StoreKeys : store_delete(key, "none")
    /\ UNCHANGED storeFrame

Store_list_keys == store_list_keys("none") /\ UNCHANGED storeFrame

NextStore ==
    \/ Store_save
    \/ Store_load
    \/ Store_delete
    \/ Store_list_keys

SpecStore == Init /\ [][NextStore]_vars

\* Both repositories driven through their methods; any file operation may fail.
IOKeys == {<<"order_O1">>, <<"order_O2">>}

IORecords ==
    {[state |-> PyStr("created"), total |-> PyInt(0)],
     [state |-> PyEnum("created"), total |-> PyInt(0)]}

StoreIO_save ==
    /\ \E key \in IOKeys, rec \in IORecords, fault \in IOFaults :
          store_save(key, rec, fault)
    /\ UNCHANGED storeFrame

StoreIO_load ==
    /\ \E key \in IOKeys, fault \in IOFaults \ {"write"} : store_load(key, fault)
    /\ UNCHANGED storeFrame

StoreIO_delete ==
    /\ \E key \in IOKeys, fault \in IOFaults \ {"write"} : store_delete(key, fault)
    /\ UNCHANGED storeFrame

StoreIO_list_keys ==
    /\ \E fault \in IOFaults \ {"write"} : store_list_keys(fault)
    /\ UNCHANGED storeFrame

NextStoreIO ==
    \/ StoreIO_save
    \/ StoreIO_load
    \/ StoreIO_delete
    \/ StoreIO_list_keys

SpecStoreIO == Init /\ [][NextStoreIO]_vars

\* The global state manager driven through its tools.
mgrFrame == <<smVars, cmdVars, busVars, storeVars, toolVars, rxVars, orchVars>>

Mgr_create_order_global ==
    /\ \E order_id \in OrderIds, items \in MgrItems :
          create_order_global(order_id, "C1", items)
    /\ UNCHANGED mgrFrame

Mgr_check_inventory_global == check_inventory_global /\ UNCHANGED mgrFrame

Mgr_process_payment_global == process_payment_global /\ UNCHANGED mgrFrame

Mgr_ship_order_global == ship_order_global /\ UNCHANGED mgrFrame

NextMgr ==
    \/ Mgr_create_order_global
    \/ Mgr_check_inventory_global
    \/ Mgr_process_payment_global
    \/ Mgr_ship_order_global

SpecMgr == Init /\ [][NextMgr]_vars

\* The facade tools, in any order.
toolFrame == <<busVars, storeVars, mgrVars, rxVars, orchVars>>

Tool_create_order_advanced ==
    /\ \E order_id \in OrderIds, items \in ItemLists :
          create_order_advanced(order_id, "C1", items)
    /\ UNCHANGED toolFrame

Tool_update_order_state ==
    /\ \E order_id \in OrderIds, new_state \in StateNames, total \in ToolTotals :
          update_order_state(order_id, new_state, total)
    /\ UNCHANGED toolFrame

Tool_undo_last_operation == undo_last_operation /\ UNCHANGED toolFrame

Tool_redo_last_operation == redo_last_operation /\ UNCHANGED toolFrame

Tool_get_order_info_advanced ==
    /\ \E order_id \in OrderIds : get_order_info_advanced(order_id)
    /\ UNCHANGED toolFrame

NextTool ==
    \/ Tool_create_order_advanced
    \/ Tool_update_order_state
    \/ Tool_undo_last_operation
    \/ Tool_redo_last_operation
    \/ Tool_get_order_info_advanced

SpecTool == Init /\ [][NextTool]_vars

\* ReactiveOrderState driven through its methods, with the default wiring.
rxFrame == <<smVars, cmdVars, busVars, storeVars, mgrVars, toolVars, orchVars>>

Rx_create_order ==
    /\ \E order_id \in RxOrderIds, items \in RxItemLists :
          reactive_create_order(order_id, "C1", items, "agent")
    /\ UNCHANGED rxFrame

Rx_check_inventory ==
    /\ \E order_id \in RxLookupIds : reactive_check_inventory(order_id, "agent")
    /\ UNCHANGED rxFrame

Rx_process_payment ==
    /\ \E order_id \in RxLookupIds : reactive_process_payment(order_id, "agent")
    /\ UNCHANGED rxFrame

Rx_ship_order ==
    /\ \E order_id \in RxLookupIds : reactive_ship_order(order_id, "agent")
    /\ UNCHANGED rxFrame

NextRx ==
    \/ Rx_create_order
    \/ Rx_check_inventory
    \/ Rx_process_payment
    \/ Rx_ship_order

SpecRx == Init /\ [][NextRx]_vars

\* The same, with callers that subscribe observing callbacks of their own
\* while the system is set up, before the first event.
ProbedEvents == {"inventory_checked", "inventory_low"}

Rx_subscribe ==
    /\ event_bus.event_history = <<>>
    /\ \E event_type \in ProbedEvents : reactive_subscribe(event_type, "probe")
    /\ UNCHANGED rxFrame

NextRxProbe ==
    \/ Rx_subscribe
    \/ Rx_create_order
    \/ Rx_check_inventory
    \/ Rx_process_payment
    \/ Rx_ship_order

SpecRxProbe == Init /\ [][NextRxProbe]_vars

\* The orchestrator tools, in any order.
orchFrame == <<smVars, cmdVars, busVars, storeVars, mgrVars, toolVars, rxVars>>

Orch_create_order ==
    /\ \E order_id \in OrchOrderIds, items \in OrchItems :
          orch_create_order(order_id, "C1", items)
    /\ UNCHANGED orchFrame

Orch_check_inventory == orch_check_inventory /\ UNCHANGED orchFrame

Orch_process_payment == orch_process_payment /\ UNCHANGED orchFrame

Orch_ship_order == orch_ship_order /\ UNCHANGED orchFrame

NextOrch ==
    \/ Orch_create_order
    \/ Orch_check_inventory
    \/ Orch_process_payment
    \/ Orch_ship_order

\* The three variants of the workflow are separate programs with separate
\* state: a run is a run of one of them, chosen by its first call.
OrchIdle     == orch_last.op = "none"
GlobalIdle   == mgr_last.op = "none"
ReactiveIdle == reactive_last.op = "none"

Life_orchestrator == GlobalIdle /\ ReactiveIdle /\ NextOrch

Life_global == OrchIdle /\ ReactiveIdle /\ NextMgr

Life_reactive == OrchIdle /\ GlobalIdle /\ NextRx

NextLifecycle ==
    \/ Life_orchestrator
    \/ Life_global
    \/ Life_reactive

SpecLifecycle == Init /\ [][NextLifecycle]_vars

(***************************************************************************)
(* Properties of the OrderStateMachine (SpecSM).                           *)
(***************************************************************************)
Terminal == {"completed", "cancelled"}

\* C1: every change of an order's state follows an edge of the transition
\* table, and a transition_to along any other edge raises ValueError and
\* leaves the order's record unchanged.
C1_TransitionsFollowTable ==
    [][\A o \in DOMAIN sm_orders :
          /\ o \in DOMAIN sm_orders'
          /\ sm_orders'[o].state # sm_orders[o].state
                => sm_orders'[o].state \in VALID_TRANSITIONS(sm_orders[o].state)
          /\ ( /\ sm_last'.op = "transition_to"
               /\ sm_last'.order_id = o
               /\ sm_last'.new_state \notin VALID_TRANSITIONS(sm_orders[o].state) )
                => /\ sm_last'.raised = "ValueError"
                   /\ sm_orders'[o] = sm_orders[o]]_vars

\* C2: once an order's state is completed or cancelled, no call of the state
\* machine changes that order's state (or removes the order).
C2_TerminalAbsorbing ==
    [][\A o \in DOMAIN sm_orders :
          sm_orders[o].state \in Terminal
             => /\ o \in DOMAIN sm_orders'
                /\ sm_orders'[o].state = sm_orders[o].state]_vars

\* A transition_to carrying a "state" field was attempted on a terminal order.
C2_Witness ==
    \E o \in DOMAIN sm_orders :
        /\ sm_orders[o].state \in Terminal
        /\ sm_last.op = "transition_to"
        /\ sm_last.order_id = o
        /\ sm_last.raised = "ValueError"
        /\ "state" \in DOMAIN sm_last.data

\* C3: after a successful transition_to the stored state is the requested target
\* and every other extra field is merged into the record, whatever the extra
\* fields are.
C3_SuccessReachesTarget ==
    (sm_last.op = "transition_to" /\ sm_last.ret)
       => LET rec == sm_orders[sm_last.order_id]
          IN  /\ rec.state = sm_last.new_state
              /\ \A k \in DOMAIN sm_last.data :
                    k # "state" => rec[k] = sm_last.data[k]

\* C4: create_order of an id already present returns False without raising and
\* leaves every record unchanged; otherwise it inserts a new order in state
\* created with total 0 and leaves the other orders alone.
C4_CreateOrder ==
    [][sm_last'.op = "create_order"
         => LET o == sm_last'.order_id
            IN  /\ sm_last'.raised = ""
                /\ IF o \in DOMAIN sm_orders
                   THEN /\ ~sm_last'.ret
                        /\ sm_orders' = sm_orders
                   ELSE /\ sm_last'.ret
                        /\ DOMAIN sm_orders' = DOMAIN sm_orders \cup {o}
                        /\ sm_orders'[o].order_id = o
                        /\ sm_orders'[o].state = "created"
                        /\ sm_orders'[o].total = 0
                        /\ \A p \in DOMAIN sm_orders : sm_orders'[p] = sm_orders[p]]_vars

\* create_order was refused for an order that has advanced beyond created.
C4_Witness ==
    /\ sm_last.op = "create_order"
    /\ ~sm_last.ret
    /\ sm_last.order_id \in DOMAIN sm_orders
    /\ sm_orders[sm_last.order_id].state = "payment_processed"
    /\ sm_orders[sm_last.order_id].total > 0

\* C5: can_transition_to changes no order and creates none, returns False for an
\* unknown order, and returns True exactly when transition_to with the same
\* target would succeed.
C5_CanTransitionPure ==
    [][sm_last'.op = "can_transition_to"
         => LET o == sm_last'.order_id
                s == sm_last'.new_state
            IN  /\ sm_orders' = sm_orders
                /\ sm_last'.raised = ""
                /\ o \notin DOMAIN sm_orders => ~sm_last'.ret
                /\ sm_last'.ret <=> (TransitionOutcome(sm_orders, o, s) = "True")]_vars

\* can_transition_to answered True for a known order and target.
C5_Witness ==
    /\ sm_last.op = "can_transition_to"
    /\ sm_last.ret
    /\ sm_last.order_id \in DOMAIN sm_orders
    /\ sm_last.new_state = "shipped"

(***************************************************************************)
(* Properties of the CommandManager (SpecCmd).                             *)
(***************************************************************************)
\* The store after executing cmds[i..] in order, as new commands, on data.
RECURSIVE Replay(_, _, _)
Replay(cmds, i, data) ==
    IF i > Len(cmds) THEN data
    ELSE Replay(cmds, i + 1, CmdExecute(cmds[i], data).data)

\* C6: after N execute_command calls, then k <= N undo calls, then up to k redo
\* calls, the store holds what executing the commands up to the cursor (the
\* first N-k, plus the redone ones) on the empty store would have left.
C6_UndoRedoReplay ==
    phase # "mixed"
       => repo_data = Replay(SubSeq(history, 1, current_index + 1), 1, EmptyDict)

\* C7: execute_command cuts the history at the cursor and appends the new
\* command with the cursor on it; a redo right after it fails and changes
\* nothing; no command cut off is in the history or called by any later call.
C7_RedoBranchDiscarded ==
    [][/\ cm_last'.op = "execute_command"
          => /\ Len(history') = current_index + 2
             /\ SubSeq(history', 1, current_index + 1)
                   = SubSeq(history, 1, current_index + 1)
             /\ history'[Len(history')].id = cm_last'.calls[1][1]
             /\ current_index' = Len(history') - 1
             /\ discarded' = discarded \cup
                   {history[i].id : i \in (current_index + 2)..Len(history)}
       /\ (cm_last.op = "execute_command" /\ cm_last'.op = "redo")
          => /\ ~cm_last'.ret
             /\ cm_last'.calls = <<>>
             /\ UNCHANGED <<history, current_index, repo_data>>
       /\ \A i \in 1..Len(cm_last'.calls) :
             cm_last'.calls[i][1] \notin discarded \cup discarded'
       /\ Ids(history') \cap discarded' = {}]_vars

\* A redo succeeded after an earlier execute_command had cut commands off.
C7_Witness ==
    /\ discarded # {}
    /\ cm_last.op = "redo"
    /\ cm_last.ret

\* C8: undo with the cursor on a command calls that command's undo() once,
\* moves the cursor back by one and returns True; with no command at the
\* cursor it returns False, calls nothing and changes nothing.
C8_Undo ==
    [][cm_last'.op = "undo"
         => IF current_index >= 0
            THEN LET command == history[current_index + 1]
                 IN  /\ cm_last'.ret
                     /\ Len(cm_last'.calls) = 1
                     /\ cm_last'.calls[1][1] = command.id
                     /\ cm_last'.calls[1][2] = "undo"
                     /\ repo_data' = CmdUndo(command, repo_data).data
                     /\ current_index' = current_index - 1
                     /\ history' = history
            ELSE /\ ~cm_last'.ret
                 /\ cm_last'.calls = <<>>
                 /\ UNCHANGED <<history, current_index, repo_data>>]_vars

\* undo returned True although the command's own undo() returned False.
C8_Witness ==
    /\ cm_last.op = "undo"
    /\ cm_last.ret
    /\ cm_last.calls[1][3] = FALSE

\* C9: redo with a command right after the cursor calls that command's
\* execute() once, advances the cursor by one and returns True, the history
\* keeping its length and order; otherwise it returns False, calls nothing and
\* changes nothing.
C9_Redo ==
    [][cm_last'.op = "redo"
         => IF current_index < Len(history) - 1
            THEN LET command == history[current_index + 2]
                 IN  /\ cm_last'.ret
                     /\ Len(cm_last'.calls) = 1
                     /\ cm_last'.calls[1][1] = command.id
                     /\ cm_last'.calls[1][2] = "execute"
                     /\ repo_data' = CmdExecute(command, repo_data).data
                     /\ current_index' = current_index + 1
                     /\ Len(history') = Len(history)
                     /\ \A i \in 1..Len(history) : history'[i].id = history[i].id
            ELSE /\ ~cm_last'.ret
                 /\ cm_last'.calls = <<>>
                 /\ UNCHANGED <<history, current_index, repo_data>>]_vars

\* redo re-executed a command while another undone command still follows it.
C9_Witness ==
    /\ cm_last.op = "redo"
    /\ cm_last.ret
    /\ current_index < Len(history) - 1

(***************************************************************************)
(* Properties of the EventBus (SpecBus).                                   *)
(***************************************************************************)
\* The handlers of the subscribe calls made for event type t, in call order.
SubscribedTo(t) ==
    LET calls == SelectSeq(subscribed, LAMBDA p : p[1] = t)
    IN  [i \in 1..Len(calls) |-> calls[i][2]]

Count(seq, x) == Cardinality({i \in 1..Len(seq) : seq[i] = x})

\* C10: publish(e) invokes every handler subscribed to e.event_type exactly
\* once, in subscription order, and no handler subscribed only to other types.
C10_EachHandlerOnce ==
    bus_last.op = "publish"
       => LET t    == bus_last.event_type
              subs == SubscribedTo(t)
              inv  == bus_last.invoked
          IN  /\ \A h \in Handlers :
                    Count(inv, h) = IF Count(subs, h) > 0 THEN 1 ELSE 0
              /\ \A i, j \in 1..Len(inv) :
                    i < j => \E p, q \in 1..Len(subs) :
                                p < q /\ subs[p] = inv[i] /\ subs[q] = inv[j]

\* C10 as amended: publish(e) invokes the handlers once per subscribe call made
\* for e.event_type, in the order of those calls (a handler subscribed twice is
\* invoked twice), and no handler subscribed only to other types.
C10_OncePerSubscription ==
    bus_last.op = "publish"
       => bus_last.invoked = SubscribedTo(bus_last.event_type)

\* An event was published to two different handlers of its type while a third
\* handler was subscribed to another type only.
C10_Witness ==
    /\ bus_last.op = "publish"
    /\ Len(bus_last.invoked) = 2
    /\ bus_last.invoked[1] # bus_last.invoked[2]
    /\ \E h \in Handlers :
          /\ Count(bus_last.invoked, h) = 0
          /\ \E i \in 1..Len(subscribed) : subscribed[i][2] = h

\* C11: when a handler fails, publish catches the failure: every handler
\* registered for the event type, also after the failing one, is invoked, the
\* event is in the history, and nothing is raised to the publisher.
C11_HandlerFailureContained ==
    [][bus_last'.op = "publish"
         => LET t == bus_last'.event_type
                registered == IF t \in DOMAIN listeners THEN listeners[t] ELSE <<>>
            IN  /\ bus_last'.raised = ""
                /\ bus_last'.invoked = registered
                /\ bus_last'.caught = SelectSeq(registered, Raises)
                /\ Len(event_history') = Len(event_history) + 1
                /\ SubSeq(event_history', 1, Len(event_history)) = event_history
                /\ event_history'[Len(event_history')].event_type = t]_vars

\* A handler failed and a handler registered after it was still invoked.
C11_Witness ==
    /\ bus_last.op = "publish"
    /\ Len(bus_last.invoked) >= 2
    /\ Raises(bus_last.invoked[1])
    /\ ~Raises(bus_last.invoked[Len(bus_last.invoked)])
    /\ bus_last.caught # <<>>

\* C12: get_recent_events(n), for every n >= 0 and history length h, returns
\* exactly the last min(n, h) published events, in publication order.
C12_RecentEvents ==
    bus_last.op = "get_recent_events"
       => LET h == Len(event_history)
              n == bus_last.limit
              m == IF n < h THEN n ELSE h
          IN  /\ Len(bus_last.events) = m
              /\ \A i \in 1..m : bus_last.events[i] = event_history[h - m + i]

(***************************************************************************)
(* Properties of the repositories (SpecStore, SpecStoreIO).                *)
(***************************************************************************)
MemLoad(key)  == RepoLoad(repo_data, key)
FileLoadNow(key) == FileLoad(fs_files, key, "none").value

MemKeys  == RepoListKeys(repo_data)
FileKeys == FileListKeys(fs_files, "none").keys

\* C13: save(key, r) followed by load(key) returns a record equal to r, on the
\* in-memory and on the file-backed repository.
C13_RoundTrip ==
    [][store_last'.op = "save"
         => /\ RepoLoad(repo_data', store_last'.key) = Some(store_last'.rec)
            /\ FileLoad(fs_files', store_last'.key, "none").value
                  = Some(store_last'.rec)]_vars

\* C14: after save(key, record), load(key) returns that record, and for every
\* other key the result of load and its membership in list_keys are unchanged,
\* on both repositories.
C14_SaveFrame ==
    [][store_last'.op = "save"
         => LET key == store_last'.key
            IN  /\ RepoLoad(repo_data', key) = Some(store_last'.rec)
                /\ FileLoad(fs_files', key, "none").value = Some(store_last'.rec)
                /\ \A k \in StoreKeys \ {key} :
                      /\ RepoLoad(repo_data', k) = RepoLoad(repo_data, k)
                      /\ FileLoad(fs_files', k, "none").value
                            = FileLoad(fs_files, k, "none").value
                      /\ (k \in DOMAIN RepoListKeys(repo_data'))
                            <=> (k \in DOMAIN RepoListKeys(repo_data))
                      /\ (k \in DOMAIN FileListKeys(fs_files', "none").keys)
                            <=> (k \in DOMAIN FileListKeys(fs_files, "none").keys)]_vars

\* C15: delete(key) returns true exactly when a snapshot existed for key (load
\* returned one); afterwards load(key) is absent and list_keys does not contain
\* key; deleting an absent key changes nothing; other keys are not affected.
C15_Delete ==
    [][store_last'.op = "delete"
         => LET key == store_last'.key
            IN  /\ store_last'.mem_ret <=> (RepoLoad(repo_data, key) # None)
                /\ store_last'.file_ret
                      <=> (FileLoad(fs_files, key, "none").value # None)
                /\ RepoLoad(repo_data', key) = None
                /\ FileLoad(fs_files', key, "none").value = None
                /\ key \notin DOMAIN RepoListKeys(repo_data')
                /\ key \notin DOMAIN FileListKeys(fs_files', "none").keys
                /\ ~store_last'.mem_ret => repo_data' = repo_data
                /\ ~store_last'.file_ret => fs_files' = fs_files
                /\ \A k \in StoreKeys \ {key} :
                      /\ RepoLoad(repo_data', k) = RepoLoad(repo_data, k)
                      /\ FileLoad(fs_files', k, "none").value
                            = FileLoad(fs_files, k, "none").value]_vars

\* C16: list_keys() returns exactly the keys for which load returns a snapshot,
\* each once and no other key, on both repositories.
C16_ListKeysExact ==
    /\ MemKeys = [k \in {k \in StoreKeys : MemLoad(k) # None} |-> 1]
    /\ FileKeys = [k \in {k \in StoreKeys : FileLoadNow(k) # None} |-> 1]

\* C17: on the same calls both repositories return the same results (list_keys
\* compared as sets) and hold the same key-to-record mapping.
C17_BackendsAgree ==
    /\ store_last.mem_ret = store_last.file_ret
    /\ store_last.mem_value = store_last.file_value
    /\ DOMAIN store_last.mem_keys = DOMAIN store_last.file_keys
    /\ \A k \in StoreKeys : MemLoad(k) = FileLoadNow(k)

\* C18: a failing file operation is never raised to the caller of the
\* file-backed repository: save and delete return False, load returns None,
\* list_keys returns an empty list.
C18_IOFailureContained ==
    /\ store_last.file_raised = ""
    /\ store_last.fault # "none"
          => CASE store_last.op = "save"      -> ~store_last.file_ret
               [] store_last.op = "delete"    -> ~store_last.file_ret
               [] store_last.op = "load"      -> store_last.file_value = None
               [] store_last.op = "list_keys" -> store_last.file_keys = NoKeys

\* A load failed on a file that holds a valid snapshot.
C18_Witness ==
    /\ store_last.op = "load"
    /\ store_last.fault = "oserror"
    /\ FileLoadNow(store_last.key) # None
    /\ store_last.file_value = None

(***************************************************************************)
(* Inventory of the global state manager.                                  *)
(***************************************************************************)
\* C19: no inventory quantity is ever negative, whatever item lists (with
\* duplicates) were reserved through check_inventory_global.
C19_InventoryNonNegative ==
    \A item \in DOMAIN mgr_inventory : mgr_inventory[item] >= 0

(***************************************************************************)
(* The facade: rejected state changes.                                     *)
(***************************************************************************)
\* The request of a facade step is for a state that is no state value, or for
\* an order the state machine does not hold, or for a state the transition
\* table does not allow from the order's current state.
Unreachable(order_id, new_state) ==
    \/ Lower(new_state) \notin OrderState
    \/ order_id \notin DOMAIN sm_orders
    \/ Lower(new_state) \notin VALID_TRANSITIONS(sm_orders[order_id].state)

\* C20: update_order_state for an unreachable state, an unknown state name or
\* an unknown order returns an invalid-state or invalid-transition result
\* (naming the current state) and leaves the state machine's records, the
\* repository, the command history and the cursor as they were.
C20_RejectedChangesNothing ==
    [][ (/\ tool_last'.op = "update_order_state"
         /\ Unreachable(tool_last'.order_id, tool_last'.new_state))
        => /\ tool_last'.result \in {"invalid_state", "invalid_transition"}
           /\ tool_last'.result = "invalid_state"
                 <=> Lower(tool_last'.new_state) \notin OrderState
           /\ tool_last'.result = "invalid_transition"
                 => tool_last'.from =
                       IF tool_last'.order_id \in DOMAIN sm_orders
                       THEN sm_orders[tool_last'.order_id].state
                       ELSE "unknown"
           /\ UNCHANGED <<sm_orders, repo_data, history, current_index>> ]_vars

\* An order that was moved on, with commands in the history, was refused a
\* state the table does not allow.
C20_Witness ==
    /\ tool_last.op = "update_order_state"
    /\ tool_last.result = "invalid_transition"
    /\ tool_last.order_id \in DOMAIN sm_orders
    /\ sm_orders[tool_last.order_id].state = "inventory_checked"
    /\ tool_last.new_state = "completed"
    /\ Len(history) >= 2

(***************************************************************************)
(* The facade: the state machine and the repository side by side.          *)
(***************************************************************************)
\* C21: undo_last_operation and redo_last_operation leave every record of the
\* state machine as it was; they change the repository and the cursor only.
C21_UndoRedoKeepMachine ==
    [][ tool_last'.op \in {"undo_last_operation", "redo_last_operation"}
        => UNCHANGED sm_orders ]_vars

\* An update that moved an order on was undone: the repository lost the
\* update, the state machine kept the state.
C21_Witness ==
    /\ tool_last.op = "undo_last_operation"
    /\ tool_last.result = "undone"
    /\ Len(history) = 2
    /\ current_index = 0
    /\ history[2].kind = "update"
    /\ history[2].order_id \in DOMAIN sm_orders
    /\ sm_orders[history[2].order_id].state = "inventory_checked"

\* C22: after a successful update_order_state, with no undo or redo so far,
\* the repository snapshot of the order has the state and the total the state
\* machine holds for it.
C22_SnapshotFollowsMachine ==
    [][ (/\ tool_last'.op = "update_order_state"
         /\ tool_last'.result = "transitioned"
         /\ phase' = "exec")
        => LET id  == tool_last'.order_id
               key == OrderKey(id)
           IN  /\ key \in DOMAIN repo_data'
               /\ repo_data'[key].state = sm_orders'[id].state
               /\ repo_data'[key].total = sm_orders'[id].total ]_vars

(***************************************************************************)
(* ReactiveOrderState and its event history.                               *)
(***************************************************************************)
\* C23: the event history only grows at its end, and an event in it keeps
\* its type, payload and source whatever happens to the order afterwards.
C23_HistoryImmutable ==
    [][ LET h  == event_bus.event_history
            h2 == event_bus'.event_history
        IN  /\ Len(h2) >= Len(h)
            /\ \A i \in 1..Len(h) : h2[i] = h[i] ]_vars

\* C24: create_order for an order_id the manager already holds reports a
\* negative result and leaves the stored order as it was.
C24_DuplicateCreateRejected ==
    [][ (/\ reactive_last'.op = "create_order"
         /\ reactive_last'.order_id \in DOMAIN reactive_state.orders)
        => /\ reactive_last'.result # "order"
           /\ reactive_state'.orders[reactive_last'.order_id] =
                 reactive_state.orders[reactive_last'.order_id] ]_vars

\* C28: process_payment succeeds only for an order whose inventory check
\* found every item available, never for one left "inventory_insufficient".
C28_PaidOnlyIfAvailable ==
    [][ (/\ reactive_last'.op = "process_payment"
         /\ reactive_last'.result = "success")
        => reactive_state.orders[reactive_last'.order_id].status
              # "inventory_insufficient" ]_vars

(***************************************************************************)
(* The call trace of one ReactiveOrderState method call.                   *)
(***************************************************************************)
\* How many handler calls are open after entry j of the trace.
Depth(t, j) ==
    Cardinality({i \in 1..j : t[i][1] = "call"})
      - Cardinality({i \in 1..j : t[i][1] = "return"})

IsAppend(e) == e[1] = "append"

Appends(t) == SelectSeq(t, IsAppend)

HandlersOf(event_type) ==
    IF event_type \in DOMAIN event_bus.listeners
    THEN event_bus.listeners[event_type]
    ELSE <<>>

\* C25: an event published by a handler is appended to the history after the
\* event being dispatched, and every handler of the new event is called and
\* returns, one after the other, before the publishing handler goes on: the
\* handlers registered after it for the first event run later.
C25_NestedDispatchDepthFirst ==
    LET t == reactive_last.trace
        a == Appends(t)
        h == event_bus.event_history
    IN  /\ Len(a) <= Len(h)
        /\ \A k \in 1..Len(a) :
              h[Len(h) - Len(a) + k].event_type = a[k][2]
        /\ \A j \in DOMAIN t :
              (IsAppend(t[j]) /\ Depth(t, j) > 0)
              => LET hs == HandlersOf(t[j][2])
                     n  == Len(hs)
                 IN  /\ j + 2 * n < Len(t)
                     /\ \A k \in 1..n :
                           /\ t[j + 2 * k - 1] = <<"call", hs[k], t[j][2]>>
                           /\ t[j + 2 * k] = <<"return", hs[k], t[j][2]>>
                     /\ Depth(t, j + 2 * n) = Depth(t, j)

\* The low-inventory monitor published INVENTORY_LOW while INVENTORY_CHECKED
\* was dispatched, with a callback subscribed to INVENTORY_LOW and another
\* registered after the monitor for INVENTORY_CHECKED, which ran last.
C25_Witness ==
    LET t == reactive_last.trace
    IN  /\ \E j \in DOMAIN t :
              /\ t[j] = <<"append", "inventory_low">>
              /\ Depth(t, j) > 0
              /\ t[j + 1] = <<"call", "probe", "inventory_low">>
        /\ Len(HandlersOf("inventory_checked")) = 3
        /\ t[Len(t)] = <<"return", "probe", "inventory_checked">>

\* C26: with the default wiring every method call ends: no publish is left
\* unfinished, every handler called has returned, the only events published
\* by a handler are INVENTORY_LOW, and nothing is subscribed to those.
C26_DispatchTerminates ==
    LET t == reactive_last.trace
    IN  /\ ~reactive_last.overflow
        /\ Depth(t, Len(t)) = 0
        /\ \A j \in DOMAIN t :
              /\ Depth(t, j) <= 1
              /\ (IsAppend(t[j]) /\ Depth(t, j) > 0)
                    => /\ t[j][2] = "inventory_low"
                       /\ HandlersOf("inventory_low") = <<>>

\* A check_inventory call in which the monitor published INVENTORY_LOW.
C26_Witness ==
    /\ reactive_last.op = "check_inventory"
    /\ \E j \in DOMAIN reactive_last.trace :
          /\ reactive_last.trace[j] = <<"append", "inventory_low">>
          /\ Depth(reactive_last.trace, j) = 1

IsLow(item) == reactive_state.inventory[item] <= 2

LowItems == SelectSeq(InventoryItems, IsLow)

EventTypes(h) == [k \in DOMAIN h |-> h[k].event_type]

\* The milestone events of a call that does what reactive_last' says.
Milestones(call) ==
    CASE call.op = "create_order" -> <<"order_created">>
      [] call.op = "check_inventory" /\ call.result # "Order not found" ->
            <<"inventory_checked">> \o [k \in DOMAIN LowItems |-> "inventory_low"]
      [] call.op = "process_payment" /\ call.result = "success" ->
            <<"payment_processed">>
      [] call.op = "ship_order" /\ call.result = "success" ->
            <<"order_shipped", "order_completed">>
      [] OTHER -> <<>>

\* C29: a call appends its milestone events to the history before it returns:
\* ORDER_CREATED; INVENTORY_CHECKED, followed at once by one INVENTORY_LOW for
\* each item whose quantity is <= 2; PAYMENT_PROCESSED; ORDER_SHIPPED and then
\* ORDER_COMPLETED.  A check_inventory records its one notification before
\* the first INVENTORY_LOW is published.
C29_EmissionOrder ==
    [][ LET h  == event_bus.event_history
            h2 == event_bus'.event_history
            t  == reactive_last'.trace
        IN  /\ EventTypes(h2) = EventTypes(h) \o Milestones(reactive_last')
            /\ (reactive_last'.op = "check_inventory"
                   /\ reactive_last'.result # "Order not found")
                => /\ \A k \in DOMAIN LowItems :
                         h2[Len(h) + 1 + k].data =
                            [item     |-> LowItems[k],
                             quantity |-> reactive_state.inventory[LowItems[k]]]
                   /\ Len(reactive_state'.notifications) =
                         Len(reactive_state.notifications) + 1
                   /\ \E n \in DOMAIN t :
                         /\ t[n][1] = "notify"
                         /\ \A j \in DOMAIN t :
                               t[j] = <<"append", "inventory_low">> => n < j
      ]_vars

\* One order went through the four operations and was checked again with the
\* laptops low: the history holds the five milestones in order, then the
\* check and its low-inventory event.
C29_Witness ==
    EventTypes(event_bus.event_history) =
       <<"order_created", "inventory_checked", "payment_processed",
         "order_shipped", "order_completed", "inventory_checked",
         "inventory_low">>

\* The guard of the call reactive_last' fails in the state it starts from.
GuardFails(call) ==
    LET known == call.order_id \in DOMAIN reactive_state.orders
    IN  \/ call.op = "check_inventory" /\ ~known
        \/ /\ call.op = "process_payment"
           /\ (~known \/ ~reactive_state.orders[call.order_id].inventory_checked)
        \/ /\ call.op = "ship_order"
           /\ (~known
                 \/ reactive_state.orders[call.order_id].payment_status # "paid")

\* C30: a call whose guard fails returns an error, publishes no event, records
\* no notification and leaves every order and the inventory as they were.
C30_GuardFailureNoEffect ==
    [][ GuardFails(reactive_last')
        => /\ reactive_last'.result \in {"Order not found",
                                         "Cannot process payment",
                                         "Cannot ship order"}
           /\ reactive_last'.trace = <<>>
           /\ UNCHANGED <<event_bus, reactive_state>> ]_vars

\* A payment was refused for an order that exists and was not checked, with
\* events in the history.
C30_Witness ==
    /\ reactive_last.op = "process_payment"
    /\ reactive_last.result = "Cannot process payment"
    /\ reactive_last.order_id \in DOMAIN reactive_state.orders
    /\ ~reactive_state.orders[reactive_last.order_id].inventory_checked
    /\ Len(event_bus.event_history) >= 5

(***************************************************************************)
(* Properties of the three workflow variants (SpecLifecycle).              *)
(***************************************************************************)
\* The orders of the orchestrator: the values under the "order_<id>" keys.
OrchOrders == {agent_state[k] : k \in DOMAIN agent_state \ {"current_order_id"}}

\* Every order of every variant.
AllWorkflowOrders ==
    OrchOrders
    \cup {mgr_orders[k] : k \in DOMAIN mgr_orders}
    \cup {reactive_state.orders[k] : k \in DOMAIN reactive_state.orders}

\* C27: in the orchestrator, global and reactive variants, after any sequence
\* of create order, check inventory, process payment and ship order, every
\* order that is shipped is paid and every order that is paid had its
\* inventory checked.
C27_LifecycleOrder ==
    \A o \in AllWorkflowOrders :
        /\ o.shipping_status = "shipped" => o.payment_status = "paid"
        /\ o.payment_status = "paid" => o.inventory_checked

\* The orchestrator shipped an order after a payment that followed a refused
\* payment of another order.
C27_Witness ==
    /\ orch_last = [op |-> "ship_order", result |-> "shipped"]
    /\ \E o \in OrchOrders : o.shipping_status = "shipped"
    /\ \E o \in OrchOrders : o.payment_status = "pending"

(***************************************************************************)
(* Redo and undo of an UpdateOrderCommand.                                 *)
(***************************************************************************)
\* A step that is a redo which ran a command / an undo which ran a command.
RedoStep == cm_last'.op = "redo" /\ cm_last'.ret /\ current_index' = current_index + 1

UndoStep == cm_last'.op = "undo" /\ cm_last'.ret /\ current_index' = current_index - 1

\* C31: the redo of an UpdateOrderCommand runs execute() again, which captures
\* previous_data anew from the store as it is when the redo begins; an undo
\* that directly follows the redo leaves the store as it was when the redo
\* began.
C31_RedoRecapturesUndoRestores ==
    [][/\ (RedoStep /\ history[current_index + 2].kind = "update")
          => history'[current_index + 2].previous_data =
                RepoLoad(repo_data, OrderKey(history[current_index + 2].order_id))
       /\ (UndoStep /\ cm_last'.redone # None
                    /\ cm_last'.redone[1].command.kind = "update")
          => repo_data' = cm_last'.redone[1].before]_vars

\* An undo directly after the redo of an update: the store is as it was when
\* the redo began, which is not what an undo with the previous_data of the
\* first execute would have left.
C31_Witness ==
    /\ cm_last.op = "undo"
    /\ cm_last.redone # None
    /\ LET was    == cm_last.redone[1].command
           before == cm_last.redone[1].before
       IN  /\ was.kind = "update"
           /\ repo_data = before
           /\ repo_data # CmdUndo(was, CmdExecute(was, before).data).data

\* A step that is an execute_command call.
ExecuteStep == cm_last'.op = "execute_command" /\ next_cmd' = next_cmd + 1

\* C32: an UpdateOrderCommand on a key that holds no record: execute()
\* returns failure and leaves the store as it is, no record created, yet
\* execute_command appends the command and advances the cursor; the undo()
\* of such a command returns failure and leaves the store as it is.
C32_UpdateOfMissingRecord ==
    [][/\ ExecuteStep
          => LET command == history'[Len(history')]
             IN  (/\ command.kind = "update"
                  /\ OrderKey(command.order_id) \notin DOMAIN repo_data)
                 => /\ ~cm_last'.ret
                    /\ cm_last'.calls = << <<command.id, "execute", FALSE>> >>
                    /\ repo_data' = repo_data
                    /\ command.id = next_cmd
                    /\ command.previous_data = None
                    /\ Len(history') = current_index + 2
                    /\ SubSeq(history', 1, current_index + 1) =
                          SubSeq(history, 1, current_index + 1)
                    /\ current_index' = current_index + 1
       /\ (/\ UndoStep
           /\ history[current_index + 1].kind = "update"
           /\ history[current_index + 1].previous_data = None)
          => /\ cm_last'.calls =
                   << <<history[current_index + 1].id, "undo", FALSE>> >>
             /\ repo_data' = repo_data]_vars

\* The undo directly after the execute_command of an update that found no
\* record, while the store holds a record under another key.
C32_Witness ==
    /\ cm_last.op = "undo"
    /\ cm_last.ret
    /\ cm_last.redone = None
    /\ phase = "undo"
    /\ LET command == history[current_index + 2]
       IN  /\ command.kind = "update"
           /\ command.previous_data = None
           /\ cm_last.calls = << <<command.id, "undo", FALSE>> >>
           /\ OrderKey(command.order_id) \notin DOMAIN repo_data
           /\ command.payload # EmptyDict
    /\ repo_data # EmptyDict
    /\ Len(history) = 2

\* The identities of the commands of a history, in order.
IdSeq(h) == [i \in 1..Len(h) |-> h[i].id]

\* C33: after every execute_command, undo and redo call the cursor is within
\* -1 .. len(history) - 1; directly after execute_command it is
\* len(history) - 1; undo and redo leave the length and the order of the
\* history as they are.
C33_CursorInvariant ==
    [][/\ -1 <= current_index'
       /\ current_index' <= Len(history') - 1
       /\ ExecuteStep => current_index' = Len(history') - 1
       /\ cm_last'.op \in {"undo", "redo"} => IdSeq(history') = IdSeq(history)]_vars

\* A redo that left the cursor inside a history of three commands, after two
\* undos.
C33_Witness ==
    /\ cm_last.op = "redo"
    /\ cm_last.ret
    /\ Len(history) = 3
    /\ current_index = 1
    /\ IdSeq(history) = <<1, 2, 3>>

(***************************************************************************)
(* A failing save of the FileRepository.                                   *)
(***************************************************************************)
\* C34: a FileRepository.save that reports failure leaves the stored snapshot
\* of the key intact: a following load(key) returns what it returned before
\* the save (the record of the last successful save, or absent), and
\* list_keys is unchanged.
C34_FailedSaveKeepsSnapshot ==
    [][(store_last'.op = "save" /\ ~store_last'.file_ret)
         => /\ FileLoad(fs_files', store_last'.key, "none").value =
                  FileLoad(fs_files, store_last'.key, "none").value
            /\ FileListKeys(fs_files', "none").keys =
                  FileListKeys(fs_files, "none").keys]_vars

====
